---- MODULE Spec2Model ----
(***************************************************************************)
(* Bit allocation and frame encoding of fabric_gen.py, for one tile type   *)
(* instantiated FabricWidth times in a one-row fabric.                     *)
(*                                                                         *)
(* Files are modelled by their parsed content:                             *)
(*   csvFile      <tile>_switch_matrix.csv: one record per row after the   *)
(*                header, [name, cells, count]; the header is Sources.     *)
(*                count is the trailing "#,<n>" cell of the row.           *)
(*   matrixFile   NumberOfConfigBits comment of the switch-matrix HDL      *)
(*                file (NoFile when the file was not written yet).         *)
(*   mappingFile  <tile>_ConfigMem.csv, a sequence of rows, or NoMapping.  *)
(*   initFile     <tile>_ConfigMem.init.csv, likewise.                     *)
(*   tileObject   the Tile object of a caller that keeps one across calls. *)
(*   FabricFile   the fabric csv: the grid of tile type names (fabric) and *)
(*                the wire lines of every tile type (tiles).  All types    *)
(*                but NULL have the bels and the files above.              *)
(*   cwdFiles     the files of the same names in the current directory,    *)
(*                when src_dir is another directory.                       *)
(* Strings that the code takes apart are sequences of one-character        *)
(* strings; names are kept whole and joined names are tuples.              *)
(***************************************************************************)
EXTENDS Integers, Sequences, FiniteSets, TLC

VARIABLES FrameBitsPerRow, MaxFramesPerCol, bels, csvFile, mappingFile,
          initFile, matrixFile, sm, tl, cm, bs, tileObject, FabricFile,
          ConfigBitMode, src_dir, cwdFiles, pc, tileMap, superTileHDL

\* the parameter and the option of a run, the files of the current directory
\* when it is not the source directory, the position of a -run_all run, and
\* the tile map of a super tile with what generateSuperTile made of it
args == <<ConfigBitMode, src_dir, cwdFiles, pc, tileMap, superTileHDL>>

vars == <<FrameBitsPerRow, MaxFramesPerCol, bels, csvFile, mappingFile,
          initFile, matrixFile, sm, tl, cm, bs, tileObject, FabricFile,
          ConfigBitMode, src_dir, cwdFiles, pc, tileMap, superTileHDL>>

\* ------------------------------------------------------------------ bounds
FabricWidth == 2
MaxIndex == 1
\* the largest bit count a Tile object kept across calls is followed to
MaxConfigBits == 8
\* genFabricObject calls that precede the one of -GenBitstreamSpec in a run
MaxEarlierCalls == 1
\* the largest offset and the largest bundle width of a wire that spans tiles
MaxSpan == 2
MaxWireCount == 2
\* the largest width and height of the tile map of a super tile
MaxMapSide == 2

\* ------------------------------------------------------------ input names
Sources == <<"p0", "p1", "p2", "q0", "GND0">>
SinkNames == <<"M1", "M2", "M3">>
letters == <<"A", "B", "C", "D">>
NoFile == -1
\* the content standing for a mapping file that does not exist
NoMapping == <<[frame_name |-> <<"absent", 0>>, frame_index |-> -1,
                used_bits_mask |-> <<>>, ConfigBits_ranges |-> <<>>]>>

\* ------------------------------------------------------------------ helpers
RECURSIVE Pow2(_)
Pow2(n) == IF n = 0 THEN 1 ELSE 2 * Pow2(n - 1)

RECURSIVE CeilLog2From(_, _)
CeilLog2From(n, w) == IF Pow2(w) >= n THEN w ELSE CeilLog2From(n, w + 1)

\* int(math.ceil(math.log2(n))) for n >= 1
CeilLog2(n) == CeilLog2From(n, 0)

RECURSIVE SumSeq(_)
SumSeq(s) == IF s = <<>> THEN 0 ELSE Head(s) + SumSeq(Tail(s))

RECURSIVE Reverse(_)
Reverse(s) == IF s = <<>> THEN <<>> ELSE Append(Reverse(Tail(s)), Head(s))

RECURSIVE CountOnes(_)
CountOnes(s) ==
    IF s = <<>> THEN 0
    ELSE (IF Head(s) = "1" THEN 1 ELSE 0) + CountOnes(Tail(s))

\* the dict assignment d[k] = v
Put(d, k, v) == [x \in (DOMAIN d) \cup {k} |-> IF x = k THEN v ELSE d[x]]

EmptyDict == [x \in {} |-> 0]

\* ------------------------------------------------- the tile description
\* Tile(...) of the parsed fabric: globalConfigBits starts as the sum of the
\* bels' configBit
FreshTile(belList) ==
    [globalConfigBits |-> SumSeq([i \in 1..Len(belList) |-> belList[i].configBit])]

\* ------------------------------------------------------- adjacency parser
RECURSIVE OnesOf(_, _)
OnesOf(cells, x) ==
    IF x > Len(cells) THEN <<>>
    ELSE (IF cells[x] = "1" THEN <<Sources[x]>> ELSE <<>>) \o OnesOf(cells, x + 1)

\* parseMatrix: destination (row name) -> the column names of its "1" cells,
\* left to right; rows in file order
parseMatrix(file) ==
    [y \in 1..Len(file) |-> [port |-> file[y].name, conns |-> OnesOf(file[y].cells, 1)]]

\* ---------------------------------------------------- BootstrapSwitchMatrix
\* tile.inputs and tile.outputs of the parsed fabric
TilePorts == [inputs |-> <<"p0", "p1", "p2", "q0">>, outputs |-> SinkNames]

\* lines 88-92: the header names the outputs, then one row of 0 cells for
\* every input.  The header of a file is not part of its model; a file of 0
\* cells is read the same under every header.
BootstrapSwitchMatrix(tile) ==
    [y \in 1..Len(tile.inputs) |->
        [name |-> tile.inputs[y],
         cells |-> [x \in 1..Len(tile.outputs) |-> "0"],
         count |-> 0]]

\* ------------------------------------------------------ genTileSwitchMatrix
RECURSIVE CountConfigBits(_)
CountConfigBits(connections) ==
    IF connections = <<>> THEN 0
    ELSE (IF Len(Head(connections).conns) >= 2
          THEN CeilLog2(Len(Head(connections).conns)) ELSE 0)
         + CountConfigBits(Tail(connections))

\* one bit for every configurable multiplexer
MuxAdvanceOneBit(muxSize) == IF muxSize >= 2 THEN 1 ELSE 0

\* the width the emission pass advances configBitstreamPosition by
MuxAdvance(muxSize) == IF muxSize >= 2 THEN CeilLog2(muxSize) ELSE 0

\* the port list handed to addMux
MuxPortList(conns) == Reverse(conns)

RECURSIVE EmitMuxes(_, _)
EmitMuxes(connections, configBitstreamPosition) ==
    IF connections = <<>> THEN <<>>
    ELSE LET k == Head(connections)
             muxSize == Len(k.conns)
             new == configBitstreamPosition + MuxAdvance(muxSize)
             rec == [portName |-> k.port,
                     muxSize |-> muxSize,
                     kind |-> IF muxSize = 0 THEN "unused"
                              ELSE IF muxSize = 1 THEN "assign" ELSE "mux",
                     portList |-> IF muxSize >= 2 THEN MuxPortList(k.conns) ELSE k.conns,
                     oldConfigBitstreamPosition |-> configBitstreamPosition,
                     configBitstreamPosition |-> new]
         IN <<rec>> \o EmitMuxes(Tail(connections), new)

\* addMux: the port list is concatenated into <port>_input (first element at
\* the highest index) and the output is <port>_input(select), select being
\* ConfigBits(configBitstreamPosition-1 downto oldConfigBitstreamPosition)
MuxRoute(mux, select) ==
    IF select < Len(mux.portList) THEN mux.portList[Len(mux.portList) - select]
    ELSE "undriven"

\* line 52
SwitchMatrixDebugSignals == TRUE

\* the mode tested whatever the number of bits
ModeCheckAlways(globalConfigBitsCounter) ==
    IF ConfigBitMode \in {"ff_chain", "FlipFlopChain", "frame_based"}
    THEN "ok" ELSE "ValueError"

\* lines 345-354: the shift register is added, and the mode looked at, only
\* when the switch matrix has configuration bits
ModeCheck(globalConfigBitsCounter) ==
    IF globalConfigBitsCounter > 0
    THEN IF ConfigBitMode \in {"ff_chain", "FlipFlopChain", "frame_based"}
         THEN "ok" ELSE "ValueError"
    ELSE "ok"

\* one bit for every DEBUG_select signal
DebugAdvanceOneBit(muxSize) == 1

\* line 409
DebugAdvance(muxSize) == CeilLog2(muxSize)

\* lines 404-411: the ConfigBits range assigned to DEBUG_select_<k>
RECURSIVE DebugAssigns(_, _)
DebugAssigns(connections, configBitstreamPosition) ==
    IF connections = <<>> THEN <<>>
    ELSE LET k == Head(connections)
             muxSize == Len(k.conns)
         IN IF muxSize >= 2
            THEN <<[portName |-> k.port,
                    oldConfigBitstreamPosition |-> configBitstreamPosition,
                    configBitstreamPosition |->
                        configBitstreamPosition + DebugAdvance(muxSize)]>>
                 \o DebugAssigns(Tail(connections),
                                 configBitstreamPosition + DebugAdvance(muxSize))
            ELSE DebugAssigns(Tail(connections), configBitstreamPosition)

\* status "ValueError": raised at line 354, before any multiplexer is emitted
\* and before writeToFile
genTileSwitchMatrix(t, file) ==
    LET connections == parseMatrix(file)
        globalConfigBitsCounter == CountConfigBits(connections)
        status == ModeCheck(globalConfigBitsCounter)
    IN [status |-> status,
        tile |-> [t EXCEPT !.globalConfigBits = globalConfigBitsCounter],
        NumberOfConfigBits |-> globalConfigBitsCounter,
        muxes |-> IF status = "ok" THEN EmitMuxes(connections, 0) ELSE <<>>,
        debug |-> IF status = "ok" /\ SwitchMatrixDebugSignals
                  THEN DebugAssigns(connections, 0) ELSE <<>>]

\* ------------------------------------------------------------ generateTile
\* every bel handed the counter's starting value
BelOffsetsShared(belList, belConfigBitsCounter) ==
    [i \in 1..Len(belList) |-> belConfigBitsCounter]

\* lines 697-703: the offset handed to addBELInstantiations for each bel
RECURSIVE BelOffsets(_, _)
BelOffsets(belList, belConfigBitsCounter) ==
    IF belList = <<>> THEN <<>>
    ELSE <<belConfigBitsCounter>>
         \o BelOffsets(Tail(belList), belConfigBitsCounter + Head(belList).configBit)

generateTile(t, belList, matrix) ==
    [tile |-> [t EXCEPT !.globalConfigBits = @ + matrix],
     belOffsets |-> BelOffsets(belList, 0),
     switchMatrixOffset |-> SumSeq([i \in 1..Len(belList) |-> belList[i].configBit])]

\* ---------------------------------------------------------------- findPipList
\* the pair appended to pips with the two names exchanged
PipPairSinkFirst(source, sink) == <<sink, source>>

\* [sources[x+1], sinks[y+1]]: sources is the header row, sinks the first cells
PipPair(source, sink) == <<source, sink>>

\* the pips list: rows in file order, the "1" cells of a row left to right
RECURSIVE PipsOf(_)
PipsOf(file) ==
    IF file = <<>> THEN <<>>
    ELSE LET srcs == OnesOf(Head(file).cells, 1)
         IN [x \in 1..Len(srcs) |-> PipPair(srcs[x], Head(file).name)]
            \o PipsOf(Tail(file))

\* every pair replacing the list of its key
RECURSIVE PipsDictLastOnly(_, _, _)
PipsDictLastOnly(pipsdict, pips, mapSourceToSinks) ==
    IF pips = <<>> THEN pipsdict
    ELSE LET key == IF mapSourceToSinks THEN Head(pips)[1] ELSE Head(pips)[2]
             value == IF mapSourceToSinks THEN Head(pips)[2] ELSE Head(pips)[1]
         IN PipsDictLastOnly(Put(pipsdict, key, <<value>>), Tail(pips), mapSourceToSinks)

\* pipsdict: every pair appends its sink to the list of its source
\* (mapSourceToSinks) or its source to the list of its sink (otherwise)
RECURSIVE PipsDict(_, _, _)
PipsDict(pipsdict, pips, mapSourceToSinks) ==
    IF pips = <<>> THEN pipsdict
    ELSE LET key == IF mapSourceToSinks THEN Head(pips)[1] ELSE Head(pips)[2]
             value == IF mapSourceToSinks THEN Head(pips)[2] ELSE Head(pips)[1]
         IN PipsDict(Put(pipsdict, key,
                         IF key \in DOMAIN pipsdict THEN Append(pipsdict[key], value)
                         ELSE <<value>>),
                     Tail(pips), mapSourceToSinks)

findPipList(file, returnDict, mapSourceToSinks) ==
    IF returnDict THEN PipsDict(EmptyDict, PipsOf(file), mapSourceToSinks)
    ELSE PipsOf(file)

\* ------------------------------------------------------------ genFabricObject
\* A Tile object is a record; id tells the objects of different calls and
\* cells apart (the dictionaries portMap and wireMap are keyed by the object).
\* A port name with an index appended is the pair <<name, index>>.
Abs(n) == IF n < 0 THEN -n ELSE n

RECURSIVE Flatten(_)
Flatten(ss) == IF ss = <<>> THEN <<>> ELSE Head(ss) \o Flatten(Tail(ss))

\* list.remove(x) on a list that holds x
RECURSIVE RemoveFirst(_, _)
RemoveFirst(list, x) ==
    IF list = <<>> THEN <<>>
    ELSE IF Head(list) = x THEN Tail(list)
    ELSE <<Head(list)>> \o RemoveFirst(Tail(list), x)

\* Tile.genTileLoc
genTileLoc(x, y) == <<"X", x, "Y", y>>

\* GetTileFromFile: the lines of a tile type in the fabric file
GetTileFromFile(file, tileType) ==
    IF tileType \in DOMAIN file.tiles THEN file.tiles[tileType] ELSE <<>>

\* what getTileByCoords returns when no tile has the coordinates
None == [id |-> <<>>, tileType |-> "None", x |-> -1, y |-> -1]

\* Fabric.getTileByCoords over the rows of Fabric.tiles
getTileByCoords(tiles, x, y) ==
    LET all == Flatten(tiles)
        hits == {n \in 1..Len(all) : all[n].x = x /\ all[n].y = y}
    IN IF hits = {} THEN None
       ELSE all[CHOOSE n \in hits : \A m \in hits : n <= m]

\* "NULL" in wire.values()
HasNull(wire) == wire.source = "NULL" \/ wire.destination = "NULL"

\* lines 2549-2643 for the cell (i, j) of the grid
NewTile(file, matrix, call, i, j) ==
    LET tileType == file.fabric[i + 1][j + 1]
        tileList == GetTileFromFile(file, tileType)
        hasMatrix == tileType # "NULL"
    IN [id |-> <<call, i, j>>,
        tileType |-> tileType,
        x |-> j,
        y |-> i,
        matrixFileName |-> IF hasMatrix THEN "switch_matrix.csv" ELSE "",
        pips |-> IF hasMatrix THEN findPipList(matrix, FALSE, FALSE) ELSE <<>>,
        pipMuxes_MapSourceToSinks |->
            IF hasMatrix THEN findPipList(matrix, TRUE, TRUE) ELSE EmptyDict,
        pipMuxes_MapSinkToSources |->
            IF hasMatrix THEN findPipList(matrix, TRUE, FALSE) ELSE EmptyDict,
        wires |-> SelectSeq(tileList,
                            LAMBDA w : w.direction = "JUMP" /\ ~HasNull(w)),
        atomicWires |-> <<>>]

\* line 79
All_Directions == {"NORTH", "EAST", "SOUTH", "WEST"}

\* portList of a tile: the non-NULL ends of its NORTH/SOUTH/EAST/WEST lines
PortList(tileList) ==
    Flatten([n \in 1..Len(tileList) |->
               IF tileList[n].direction \notin All_Directions THEN <<>>
               ELSE (IF tileList[n].source # "NULL"
                     THEN <<tileList[n].source>> ELSE <<>>)
                    \o (IF tileList[n].destination # "NULL"
                        THEN <<tileList[n].destination>> ELSE <<>>)])

WireTextList(tileList) ==
    SelectSeq(tileList, LAMBDA w : w.direction \in All_Directions)

\* GetComponentPortsFromFile: the input and the output ports of a bel file,
\* each a name and the digits it ends in
GetComponentPortsFromFile(file) ==
    CASE file = "LUT.vhdl" -> <<<< <<"I", 0>>, <<"I", 1>> >>, << <<"O", 0>> >>>>
      [] file = "IO.vhdl" -> <<<< <<"P", 0>> >>, <<>>>>
      [] OTHER -> <<<<>>, <<>>>>

\* prefix + port, for the prefixes and the ports of the bel files above
Prefixed(prefix, port) ==
    <<CASE prefix = "" -> port[1]
        [] prefix = "LA_" /\ port[1] = "I" -> "LA_I"
        [] prefix = "LA_" /\ port[1] = "O" -> "LA_O"
        [] prefix = "A_" /\ port[1] = "P" -> "A_P"
        [] OTHER -> "other",
      port[2]>>

\* lines 2599-2613: nports of a BEL line
BelPortNames(wire) ==
    LET ports == GetComponentPortsFromFile(wire.file)
    IN {Prefixed(wire.prefix, ports[1][n]) : n \in 1..Len(ports[1])}
       \cup {Prefixed(wire.prefix, ports[2][n]) : n \in 1..Len(ports[2])}

\* the ports cTile.belPorts.update(nports) adds over the lines of a tile
RECURSIVE BelPortsUpdate(_, _)
BelPortsUpdate(belPorts, tileList) ==
    IF tileList = <<>> THEN belPorts
    ELSE BelPortsUpdate(IF Head(tileList).direction = "BEL"
                        THEN belPorts \cup BelPortNames(Head(tileList))
                        ELSE belPorts,
                        Tail(tileList))

\* addBrackets for a port name that ends in digits (BracketMatch holds)
addBrackets(portIn, belPorts) ==
    IF portIn \notin belPorts THEN <<portIn[1], "[", portIn[2], "]">> ELSE portIn

\* portMap[t].remove(port)
PortRemove(st, t, port) ==
    IF st.err # "none" THEN st
    ELSE IF t.id \notin DOMAIN st.portMap THEN [st EXCEPT !.err = "KeyError"]
    ELSE IF \A n \in 1..Len(st.portMap[t.id]) : st.portMap[t.id][n] # port
    THEN [st EXCEPT !.err = "ValueError"]
    ELSE [st EXCEPT !.portMap = Put(@, t.id, RemoveFirst(st.portMap[t.id], port))]

AtomicWire(direction, source, xoffset, yoffset, destination, sourceTile, destTile) ==
    [direction |-> direction, source |-> source, xoffset |-> xoffset,
     yoffset |-> yoffset, destination |-> destination,
     sourceTile |-> sourceTile, destTile |-> destTile]

\* every segment arriving under the index it left with
CascadedWiresStraight(wire, tile, cTile, span, xoffset, yoffset) ==
    LET here == genTileLoc(tile.x, tile.y)
        there == genTileLoc(cTile.x, cTile.y)
    IN Flatten([k \in 1..(wire.wire_count * span) |->
         LET i == k - 1
         IN IF i < wire.wire_count
            THEN <<AtomicWire(wire.direction, <<wire.source, i>>, xoffset, yoffset,
                              <<wire.destination, i>>, here, there)>>
            ELSE <<AtomicWire("JUMP", <<wire.destination, i>>, 0, 0,
                              <<wire.source, i>>, here, here),
                   AtomicWire(wire.direction, <<wire.source, i>>, xoffset, yoffset,
                              <<wire.destination, i>>, here, there)>>])

\* the loops of lines 2667-2677, 2683-2693, 2700-2710, 2716-2726: a wire that
\* spans several tiles, as atomic wires from the tile to its neighbour cTile
CascadedWires(wire, tile, cTile, span, xoffset, yoffset) ==
    LET here == genTileLoc(tile.x, tile.y)
        there == genTileLoc(cTile.x, cTile.y)
    IN Flatten([k \in 1..(wire.wire_count * span) |->
         LET i == k - 1
         IN IF i < wire.wire_count
            THEN <<AtomicWire(wire.direction, <<wire.source, i>>, xoffset, yoffset,
                              <<wire.destination, i + wire.wire_count * (span - 1)>>,
                              here, there)>>
            ELSE <<AtomicWire("JUMP", <<wire.destination, i>>, 0, 0,
                              <<wire.source, i>>, here, here),
                   AtomicWire(wire.direction, <<wire.source, i>>, xoffset, yoffset,
                              <<wire.destination, i - wire.wire_count>>,
                              here, there)>>])

\* lines 2730-2738: the name a terminated wire arrives under
DestWireName(source_wire_name) ==
    CASE source_wire_name = "Co" -> "Ci"
      [] source_wire_name = "E1BEG" -> "E1END"
      [] source_wire_name = "E2BEG" -> "E2MID"
      [] source_wire_name = "E2BEGb" -> "E2END"
      [] OTHER -> source_wire_name

\* the loops of lines 2743-2745, 2751-2753, 2760-2762, 2768-2770
TerminatedWires(wire, tile, cTile, span, xoffset, yoffset) ==
    [k \in 1..(wire.wire_count * span) |->
        AtomicWire(wire.direction, <<wire.source, k - 1>>, xoffset, yoffset,
                   <<DestWireName(wire.source), k - 1>>,
                   genTileLoc(tile.x, tile.y), genTileLoc(cTile.x, cTile.y))]

\* the atomic wires of one branch, then the two removals from portMap;
\* cTile.genTileLoc() on None raises inside the loop
AddAtomicWires(st, tile, cTile, atomic, arriving, leaving) ==
    IF cTile = None /\ atomic # <<>> THEN [st EXCEPT !.err = "AttributeError"]
    ELSE PortRemove(PortRemove([st EXCEPT !.tempAtomicWires = @ \o atomic],
                               cTile, arriving),
                    tile, leaving)

\* lines 2655-2772 for one wire of the tile
WireStep(st, tile, wire) ==
    LET xoffset == wire.xoffset
        yoffset == wire.yoffset
        destinationTile == getTileByCoords(st.tiles, tile.x + xoffset, tile.y + yoffset)
        alongX(step) == getTileByCoords(st.tiles, tile.x + step, tile.y + yoffset)
        alongY(step) == getTileByCoords(st.tiles, tile.x + xoffset, tile.y + step)
    IN IF Abs(xoffset) <= 1 /\ Abs(yoffset) <= 1 /\ ~HasNull(wire)
       THEN PortRemove(PortRemove([st EXCEPT !.wires = Append(@, wire)],
                                  destinationTile, wire.destination),
                       tile, wire.source)
       ELSE IF ~HasNull(wire)
       THEN IF xoffset # 0
            THEN IF xoffset > 1
                 THEN AddAtomicWires(st, tile, alongX(1),
                        CascadedWires(wire, tile, alongX(1), Abs(xoffset), 1, yoffset),
                        wire.destination, wire.source)
                 ELSE IF xoffset < -1
                 THEN AddAtomicWires(st, tile, alongX(-1),
                        CascadedWires(wire, tile, alongX(-1), Abs(xoffset), -1, yoffset),
                        wire.destination, wire.source)
                 ELSE st
            ELSE IF yoffset # 0
            THEN IF yoffset > 1
                 THEN AddAtomicWires(st, tile, alongY(1),
                        CascadedWires(wire, tile, alongY(1), Abs(yoffset), xoffset, 1),
                        wire.destination, wire.source)
                 ELSE IF yoffset < -1
                 THEN AddAtomicWires(st, tile, alongY(-1),
                        CascadedWires(wire, tile, alongY(-1), Abs(yoffset), xoffset, -1),
                        wire.destination, wire.source)
                 ELSE st
            ELSE st
       ELSE IF wire.source # "NULL" /\ wire.destination = "NULL"
       THEN IF xoffset # 0
            THEN LET step == IF xoffset > 0 THEN 1 ELSE -1
                 IN AddAtomicWires(st, tile, alongX(step),
                      TerminatedWires(wire, tile, alongX(step), Abs(xoffset), step, yoffset),
                      DestWireName(wire.source), wire.source)
            ELSE IF yoffset # 0
            THEN LET step == IF yoffset > 0 THEN 1 ELSE -1
                 IN AddAtomicWires(st, tile, alongY(step),
                      TerminatedWires(wire, tile, alongY(step), Abs(yoffset), xoffset, step),
                      DestWireName(wire.source), wire.source)
            ELSE st
       ELSE st

RECURSIVE WireSteps(_, _, _)
WireSteps(st, tile, wireTextList) ==
    IF wireTextList = <<>> \/ st.err # "none" THEN st
    ELSE WireSteps(WireStep(st, tile, Head(wireTextList)), tile, Tail(wireTextList))

\* lines 2648-2775: the second pass over Fabric.tiles, row r, tile c
RECURSIVE AddWires(_, _, _)
AddWires(st, r, c) ==
    IF r > Len(st.tiles) \/ st.err # "none" THEN st
    ELSE IF c > Len(st.tiles[r]) THEN AddWires(st, r + 1, 1)
    ELSE LET tile == st.tiles[r][c]
         IN IF tile.id \notin DOMAIN st.wireMap THEN [st EXCEPT !.err = "KeyError"]
            ELSE LET done == WireSteps([st EXCEPT !.wires = <<>>,
                                                  !.tempAtomicWires = <<>>],
                                       tile, st.wireMap[tile.id])
                 IN AddWires(
                      [done EXCEPT !.tiles[r][c].wires = @ \o done.wires,
                                   !.tiles[r][c].atomicWires = done.tempAtomicWires],
                      r, c + 1)

\* lines 2546-2644: the first pass, cell by cell; every tile is appended to its
\* row and entered in portMap and wireMap, every row appended to Fabric.tiles
RECURSIVE NewRow(_, _, _, _, _, _)
NewRow(st, row, file, matrix, call, ij) ==
    IF ij[2] >= Len(file.fabric[ij[1] + 1])
    THEN [st EXCEPT !.tiles = Append(@, row)]
    ELSE LET cTile == NewTile(file, matrix, call, ij[1], ij[2])
             tileList == GetTileFromFile(file, cTile.tileType)
         IN NewRow([st EXCEPT !.portMap = Put(@, cTile.id, PortList(tileList)),
                              !.wireMap = Put(@, cTile.id, WireTextList(tileList)),
                              !.belPorts = BelPortsUpdate(@, tileList)],
                   Append(row, cTile), file, matrix, call, <<ij[1], ij[2] + 1>>)

RECURSIVE NewRows(_, _, _, _, _)
NewRows(st, file, matrix, call, i) ==
    IF i >= Len(file.fabric) THEN st
    ELSE NewRows(NewRow(st, <<>>, file, matrix, call, <<i, 0>>),
                 file, matrix, call, i + 1)

\* genFabricObject(fabric) as the call-th call of the process; classTiles is
\* the list Fabric.tiles and classBelPorts the set Tile.belPorts, attributes of
\* their classes, as earlier calls left them.  No Tile object is ever given a
\* belPorts of its own, so tile.belPorts of every tile is the set of the class.
genFabricObject(file, matrix, classTiles, classBelPorts, call) ==
    LET st == AddWires(
                NewRows([err |-> "none", tiles |-> classTiles,
                         portMap |-> EmptyDict, wireMap |-> EmptyDict,
                         wires |-> <<>>, tempAtomicWires |-> <<>>,
                         belPorts |-> classBelPorts],
                        file, matrix, call, 0),
                1, 1)
    IN [status |-> IF st.err = "none" THEN "ok" ELSE st.err,
        tiles |-> st.tiles,
        belPorts |-> st.belPorts]

\* -------------------------------------------------------- generateSuperTile
\* The tile map is a rectangle of cells, each a tile name or "None"; x and y
\* count from 0 as in the code.
MapCell(map, x, y) == map[y + 1][x + 1]

\* the cells in the order of the two nested loops
MapCells(map) ==
    Flatten([y \in 1..Len(map) |-> [x \in 1..Len(map[y]) |-> <<x - 1, y - 1>>]])

\* the four tests of a cell in code order: the side and the adjacent cell
Sides(x, y) ==
    <<[side |-> "North", x |-> x, y |-> y - 1], [side |-> "East", x |-> x + 1, y |-> y],
      [side |-> "South", x |-> x, y |-> y + 1], [side |-> "West", x |-> x - 1, y |-> y]>>

\* lines 752-759: outside the map, or empty
IsPerimeter(map, x, y, s) ==
    IF s.y < 0 \/ s.y >= Len(map) \/ s.x < 0 \/ s.x >= Len(map[y + 1]) THEN TRUE
    ELSE MapCell(map, s.x, s.y) = "None"

\* lines 829-836: inside the map, and a tile
IsInternal(map, x, y, s) ==
    IF 0 <= s.y /\ s.y < Len(map) /\ 0 <= s.x /\ s.x < Len(map[1])
    THEN MapCell(map, s.x, s.y) # "None"
    ELSE FALSE

\* lines 746-759: empty cells are skipped
RECURSIVE PortsAround(_, _, _)
PortsAround(portsAround, map, cells) ==
    IF cells = <<>> THEN portsAround
    ELSE LET x == Head(cells)[1]
             y == Head(cells)[2]
             sides == Sides(x, y)
             found == SelectSeq(sides, LAMBDA s : IsPerimeter(map, x, y, s))
         IN IF MapCell(map, x, y) = "None"
            THEN PortsAround(portsAround, map, Tail(cells))
            ELSE PortsAround(
                   portsAround \o [n \in 1..Len(found) |-> <<found[n].side, x, y>>],
                   map, Tail(cells))

\* lines 825-836: every cell is visited, and tile.get<Side>Ports() is called
\* on the cell when the adjacent cell is a tile
RECURSIVE InternalConnections(_, _, _)
InternalConnections(st, map, cells) ==
    IF cells = <<>> \/ st.err # "none" THEN st
    ELSE LET x == Head(cells)[1]
             y == Head(cells)[2]
             sides == Sides(x, y)
             found == SelectSeq(sides, LAMBDA s : IsInternal(map, x, y, s))
         IN IF found # <<>> /\ MapCell(map, x, y) = "None"
            THEN [st EXCEPT !.err = "AttributeError"]
            ELSE InternalConnections(
                   [st EXCEPT !.internalConnections =
                        @ \o [n \in 1..Len(found) |-> <<found[n].side, x, y>>]],
                   map, Tail(cells))

generateSuperTile(map) ==
    LET st == InternalConnections([err |-> "none", internalConnections |-> <<>>],
                                  map, MapCells(map))
    IN [status |-> IF st.err = "none" THEN "ok" ELSE st.err,
        portsAround |-> PortsAround(<<>>, map, MapCells(map)),
        internalConnections |-> st.internalConnections]

\* ------------------------------------------------------------ genBitstreamSpec
BelMap(belType) ==
    CASE belType = "MUX8LUT_frame_config" ->
            <<[key |-> "c0", bit |-> 0], [key |-> "c1", bit |-> 1]>>
      [] belType = "Config_access" ->
            <<[key |-> "C_bit0", bit |-> 0], [key |-> "C_bit1", bit |-> 1],
              [key |-> "C_bit2", bit |-> 2], [key |-> "C_bit3", bit |-> 3]>>
      [] belType = "IO_1_bidirectional_frame_config_pass" -> <<>>

\* mask.replace("_", "")
RemoveUnderscores(mask) == SelectSeq(mask, LAMBDA c : c # "_")

\* lines 4261-4268 on the text of the ConfigBits_ranges column: the decoded
\* list, -1 standing for a text int() rejects
ConfigEncode(items) ==
    IF \E n \in 1..Len(items) : items[n].t = "range"
    THEN IF Len(items) = 1
         THEN LET index_width == items[1].l - items[1].r + 1
              IN [err |-> "none",
                  list |-> IF index_width > 0
                           THEN [i \in 1..index_width |-> items[1].l - (i - 1)]
                           ELSE <<>>]
         ELSE [err |-> "ValueError", list |-> <<>>]
    ELSE [err |-> "none",
          list |-> IF Len(items) = 1 /\ items[1].t = "single"
                   THEN <<items[1].l>> ELSE <<-1>>]

\* the position in the frame alone
PhysicalIndexNoFrame(i, frameIndex) == 31 - i

\* the physical index genBitstreamSpec stores for mask position i (from 0)
\* of the frame with index frameIndex
PhysicalIndex(i, frameIndex) == (31 - i) + (32 * frameIndex)

RECURSIVE EncodeMask(_, _, _, _, _)
EncodeMask(encodeDict, mask, i, configEncode, line) ==
    IF i > Len(mask) THEN [err |-> "none", encodeDict |-> encodeDict]
    ELSE IF mask[i] = "0"
         THEN EncodeMask(encodeDict, mask, i + 1, configEncode, line)
         ELSE LET encode_i == CountOnes([n \in 1..(i - 1) |->
                                  IF mask[n] # "0" THEN "1" ELSE "0"]) + 1
              IN IF encode_i > Len(configEncode)
                 THEN [err |-> "IndexError", encodeDict |-> encodeDict]
                 ELSE IF configEncode[encode_i] < 0
                 THEN [err |-> "ValueError", encodeDict |-> encodeDict]
                 ELSE IF configEncode[encode_i] \notin DOMAIN encodeDict
                 THEN [err |-> "IndexError", encodeDict |-> encodeDict]
                 ELSE EncodeMask(
                        [encodeDict EXCEPT ![configEncode[encode_i]] =
                             PhysicalIndex(i - 1, line.frame_index)],
                        mask, i + 1, configEncode, line)

RECURSIVE EncodeLines(_, _)
EncodeLines(encodeDict, configList) ==
    IF configList = <<>> THEN [err |-> "none", encodeDict |-> encodeDict]
    ELSE LET line == Head(configList)
             ce == ConfigEncode(line.ConfigBits_ranges)
         IN IF ce.err # "none" THEN [err |-> ce.err, encodeDict |-> encodeDict]
            ELSE LET r == EncodeMask(encodeDict, RemoveUnderscores(line.used_bits_mask),
                                     1, ce.list, line)
                 IN IF r.err # "none" THEN r
                    ELSE EncodeLines(r.encodeDict, Tail(configList))

\* lines 4257-4276
BuildEncodeDict(configList, frameBits, maxFrames) ==
    EncodeLines([i \in 0..(frameBits * maxFrames - 1) |-> -1], configList)

RECURSIVE Bin(_)
Bin(n) == IF n < 2 THEN <<IF n = 1 THEN "1" ELSE "0">>
          ELSE Bin(n \div 2) \o <<IF n % 2 = 1 THEN "1" ELSE "0">>

\* f"{value:0{width}b}"
FormatBin(value, width) ==
    LET digits == Bin(IF value < 0 THEN -value ELSE value)
        sign == IF value < 0 THEN <<"-">> ELSE <<>>
        pad == width - Len(digits) - Len(sign)
    IN sign \o [i \in 1..(IF pad > 0 THEN pad ELSE 0) |-> "0"] \o digits

\* the index of a pip in the list as it is walked
PipIndexForward(pipCount, i) == i

\* the index whose binary encoding the i-th pip (from 0) of the reversed
\* muxList receives
PipIndex(pipCount, i) == pipCount - i - 1

\* the sink named first
PipNameSinkFirst(source, sink) == <<sink, ".", source>>

\* ".".join((source, sink))
PipName(source, sink) == <<source, ".", sink>>

\* the accumulator of one tile's traversal:
\*   map, nomask     curTileMap, curTileMap_No_Mask
\*   cur             curBitOffset
\*   cw              controlWidth (-1: not yet bound)
\*   belAt, rowAt    curBitOffset when the bel / the row was reached
\*   rowEnd          curBitOffset after the row
RECURSIVE BelFeatures(_, _, _, _, _)
BelFeatures(st, encodeDict, name, features, tempOffset) ==
    IF features = <<>> THEN [st EXCEPT !.cur = @ + tempOffset]
    ELSE LET f == Head(features)
             logical == f.bit + st.cur
         IN IF logical \notin DOMAIN encodeDict THEN [st EXCEPT !.err = "IndexError"]
            ELSE BelFeatures(
                   [st EXCEPT !.map = Put(@, <<name, ".", f.key>>,
                                          Put(EmptyDict, encodeDict[logical], "1")),
                              !.nomask = Put(@, <<name, ".", f.key>>,
                                             Put(EmptyDict, logical, "1"))],
                   encodeDict, name, Tail(features),
                   tempOffset + (IF f.key # "INIT" THEN 1 ELSE 0))

RECURSIVE SpecBels(_, _, _, _)
SpecBels(st, encodeDict, belList, i) ==
    IF i > Len(belList) \/ st.err # "none" THEN st
    ELSE SpecBels(
           BelFeatures([st EXCEPT !.belAt = Append(@, st.cur)], encodeDict,
                       letters[i], BelMap(belList[i].belType), 0),
           encodeDict, belList, i + 1)

RECURSIVE ControlBits(_, _, _, _, _)
ControlBits(st, encodeDict, pip, chars, tempOffset) ==
    IF chars = <<>> THEN st
    ELSE LET logical == st.cur + tempOffset
             withKey == IF pip \in DOMAIN st.map THEN st
                        ELSE [st EXCEPT !.map = Put(@, pip, EmptyDict),
                                        !.nomask = Put(@, pip, EmptyDict)]
         IN IF logical \notin DOMAIN encodeDict
            THEN [withKey EXCEPT !.err = "IndexError"]
            ELSE ControlBits(
                   [withKey EXCEPT
                       !.map = Put(@, pip, Put(withKey.map[pip],
                                               encodeDict[logical], Head(chars))),
                       !.nomask = Put(@, pip, Put(withKey.nomask[pip],
                                                  logical, Head(chars)))],
                   encodeDict, pip, Tail(chars), tempOffset + 1)

\* controlValue written from its first character on
ControlCharsMsbFirst(pip_index, controlWidth) == FormatBin(pip_index, controlWidth)

\* the characters of controlValue in the order they are written to
\* curBitOffset, curBitOffset + 1, ...
ControlChars(pip_index, controlWidth) == Reverse(FormatBin(pip_index, controlWidth))

RECURSIVE SpecPips(_, _, _, _, _)
SpecPips(st, encodeDict, muxList, i, pipCount) ==
    IF i > Len(muxList) \/ st.err # "none" THEN st
    ELSE IF pipCount = 0 THEN [st EXCEPT !.err = "OverflowError"]
    ELSE LET controlWidth == CeilLog2(pipCount)
             bound == [st EXCEPT !.cw = controlWidth]
             pip == muxList[i]
         IN IF pipCount < 2
            THEN SpecPips([bound EXCEPT !.map = Put(@, pip, EmptyDict),
                                        !.nomask = Put(@, pip, EmptyDict)],
                          encodeDict, muxList, i + 1, pipCount)
            ELSE SpecPips(
                   ControlBits(bound, encodeDict, pip,
                               ControlChars(PipIndex(pipCount, i - 1), controlWidth),
                               0),
                   encodeDict, muxList, i + 1, pipCount)

\* the muxList of a row of the table
MuxList(row) ==
    LET srcs == OnesOf(row.cells, 1)
    IN Reverse([x \in 1..Len(srcs) |-> PipName(srcs[x], row.name)])

\* what the row loop adds to curBitOffset after a row
RowAdvance(st) == st.cw

RECURSIVE SpecRows(_, _, _, _)
SpecRows(st, encodeDict, file, y) ==
    IF y > Len(file) \/ st.err # "none" THEN st
    ELSE LET at == [st EXCEPT !.rowAt = Append(@, st.cur)]
             done == SpecPips(at, encodeDict, MuxList(file[y]), 1, file[y].count)
         IN IF done.err # "none" THEN done
            ELSE IF done.cw < 0 THEN [done EXCEPT !.err = "UnboundLocalError"]
            ELSE SpecRows([done EXCEPT !.cur = @ + RowAdvance(done),
                                       !.rowEnd = Append(@, done.cur + RowAdvance(done))],
                          encodeDict, file, y + 1)

\* the names lines 4349-4359 add for the connections that have no multiplexer:
\* source<count>.destination<count> for every count of every wire, then
\* source.destination for every atomic wire
WireNames(curTile) ==
    Flatten([n \in 1..Len(curTile.wires) |->
               [k \in 1..curTile.wires[n].wire_count |->
                   <<curTile.wires[n].source, k - 1, ".",
                     curTile.wires[n].destination, k - 1>>]])
    \o [n \in 1..Len(curTile.atomicWires) |->
           curTile.atomicWires[n].source \o <<".">>
               \o curTile.atomicWires[n].destination]

RECURSIVE SpecWires(_, _)
SpecWires(st, wireNames) ==
    IF wireNames = <<>> \/ st.err # "none" THEN st
    ELSE SpecWires([st EXCEPT !.map = Put(@, Head(wireNames), EmptyDict),
                              !.nomask = Put(@, Head(wireNames), EmptyDict)],
                   Tail(wireNames))

\* lines 4290-4359 for one tile; controlWidth is what the previous tile left
SpecTile(encodeDict, belList, file, controlWidth, curTile) ==
    LET st0 == [err |-> "none", map |-> EmptyDict, nomask |-> EmptyDict, cur |-> 0,
                cw |-> controlWidth, belAt |-> <<>>, rowAt |-> <<>>, rowEnd |-> <<>>]
    IN SpecWires(SpecRows(SpecBels(st0, encodeDict, belList, 1), encodeDict, file, 1),
                 WireNames(curTile))

\* the ConfigMem csv that genBitstreamSpec opens for a cell type:
\* <type>_ConfigMem.csv, else <type>_ConfigMem.init.csv, else none
SpecConfigCSV(mapping, init) ==
    IF mapping # NoMapping THEN mapping ELSE init

\* the loop of lines 4232-4363 over the tiles of archObject.tiles, row by row
RECURSIVE SpecTiles(_, _, _, _, _, _, _)
SpecTiles(acc, tiles, configCSV, belList, file, frameBits, maxFrames) ==
    IF tiles = <<>> \/ acc.status # "ok" THEN acc
    ELSE IF Head(tiles).tileType = "NULL" \/ configCSV = NoMapping
    THEN SpecTiles(acc, Tail(tiles), configCSV, belList, file, frameBits, maxFrames)
    ELSE LET enc == BuildEncodeDict(configCSV, frameBits, maxFrames)
         IN IF enc.err # "none" THEN [acc EXCEPT !.status = enc.err]
            ELSE LET t == SpecTile(enc.encodeDict, belList, file, acc.controlWidth,
                                   Head(tiles))
                     loc == genTileLoc(Head(tiles).x, Head(tiles).y)
                     seen == [acc EXCEPT
                                !.encodeDict = enc.encodeDict,
                                !.encoded = TRUE,
                                !.controlWidth = t.cw,
                                !.trace = Put(@, loc, [belAt |-> t.belAt,
                                                       rowAt |-> t.rowAt,
                                                       rowEnd |-> t.rowEnd])]
                 IN IF t.err # "none" THEN [seen EXCEPT !.status = t.err]
                    ELSE SpecTiles(
                           [seen EXCEPT !.TileSpecs = Put(@, loc, t.map),
                                        !.TileSpecs_No_Mask = Put(@, loc, t.nomask)],
                           Tail(tiles), configCSV, belList, file, frameBits, maxFrames)

\* specData before the first tile
NoSpecData ==
    [status |-> "ok", TileSpecs |-> EmptyDict, TileSpecs_No_Mask |-> EmptyDict,
     trace |-> EmptyDict, encodeDict |-> <<>>, encoded |-> FALSE,
     controlWidth |-> -1, configCSV |-> NoMapping]

genBitstreamSpec(archObject, mapping, init, belList, file, frameBits, maxFrames) ==
    SpecTiles(NoSpecData, Flatten(archObject.tiles), SpecConfigCSV(mapping, init),
              belList, file, frameBits, maxFrames)

\* ---------------------------------------------------------- generateConfigMem
Range(l, r) == [t |-> "range", l |-> l, r |-> r]
Single(c) == [t |-> "single", l |-> c, r |-> c]
Null == [t |-> "NULL", l |-> 0, r |-> 0]

Ones(n) == [i \in 1..n |-> "1"]
Zeros(n) == [i \in 1..n |-> "0"]

\* generateConfigMemInit: the default mapping for bitsLeft configuration bits
RECURSIVE InitRows(_, _, _, _)
InitRows(k, bitsLeftToPackInFrames, frameBits, maxFrames) ==
    IF k >= maxFrames THEN <<>>
    ELSE IF bitsLeftToPackInFrames >= frameBits
    THEN <<[frame_name |-> <<"frame", k>>, frame_index |-> k,
            used_bits_mask |-> Ones(frameBits),
            ConfigBits_ranges |-> <<Range(bitsLeftToPackInFrames - 1,
                                          bitsLeftToPackInFrames - frameBits)>>]>>
         \o InitRows(k + 1, bitsLeftToPackInFrames - frameBits, frameBits, maxFrames)
    ELSE <<[frame_name |-> <<"frame", k>>, frame_index |-> k,
            used_bits_mask |-> Ones(bitsLeftToPackInFrames)
                               \o Zeros(frameBits - bitsLeftToPackInFrames),
            ConfigBits_ranges |-> IF bitsLeftToPackInFrames > 0
                                  THEN <<Range(bitsLeftToPackInFrames - 1, 0)>>
                                  ELSE <<Null>>]>>
         \o InitRows(k + 1, 0, frameBits, maxFrames)

generateConfigMemInit(globalConfigBits, frameBits, maxFrames) ==
    InitRows(0, globalConfigBits, frameBits, maxFrames)

\* the mask loop without the comparison of len(...) to FrameBitsPerRow
RECURSIVE MaskCheckOnesOnly(_, _)
MaskCheckOnesOnly(rows, frameBits) ==
    IF rows = <<>> THEN "none"
    ELSE IF CountOnes(Head(rows).used_bits_mask) > frameBits THEN "ones"
    ELSE MaskCheckOnesOnly(Tail(rows), frameBits)

\* lines 139-147: the first mask the loop rejects, as the kind of its error
RECURSIVE MaskCheck(_, _)
MaskCheck(rows, frameBits) ==
    IF rows = <<>> THEN "none"
    ELSE IF CountOnes(Head(rows).used_bits_mask) > frameBits THEN "ones"
    ELSE IF Len(Head(rows).used_bits_mask) # frameBits THEN "length"
    ELSE MaskCheck(Tail(rows), frameBits)

UsedBits(rows) == SumSeq([i \in 1..Len(rows) |-> CountOnes(rows[i].used_bits_mask)])

\* lines 126-151: "none" or the check that raises ValueError
Validate(rows, globalConfigBits, frameBits, maxFrames) ==
    IF Len(rows) # maxFrames THEN "rows"
    ELSE IF MaskCheck(rows, frameBits) # "none" THEN MaskCheck(rows, frameBits)
    ELSE IF UsedBits(rows) # globalConfigBits THEN "total"
    ELSE "none"

\* range(left, right + 1), reversed when the range was written descending
NumList(left, right) ==
    IF right < left THEN [i \in 1..(left - right + 1) |-> left - (i - 1)]
    ELSE [i \in 1..(right - left + 1) |-> left + (i - 1)]

\* lines 196-222 for the items of one ConfigBits_ranges text, from an empty
\* configBitsOrder; re.split(':', ...) is applied to the whole text
RECURSIVE ParseItems(_, _, _)
ParseItems(items, n, configBitsOrder) ==
    IF n > Len(items) THEN [err |-> "none", order |-> configBitsOrder]
    ELSE LET item == items[n]
         IN IF item.t = "range"
            THEN IF Len(items) # 1 THEN [err |-> "ValueError", order |-> configBitsOrder]
                 ELSE [err |-> "none", order |-> configBitsOrder \o NumList(item.l, item.r)]
            ELSE IF item.t = "single"
            THEN IF \E j \in 1..Len(configBitsOrder) : configBitsOrder[j] = item.l
                 THEN [err |-> "ValueError", order |-> configBitsOrder]
                 ELSE ParseItems(items, n + 1, Append(configBitsOrder, item.l))
            ELSE ParseItems(items, n + 1, configBitsOrder)

\* lines 185-227
RECURSIVE ParseEntries(_, _)
ParseEntries(rows, acc) ==
    IF rows = <<>> \/ acc.err # "none" THEN acc
    ELSE LET entry == Head(rows)
             bitsUsedInFrame == CountOnes(entry.used_bits_mask)
             used == IF bitsUsedInFrame > 0
                     THEN Append(acc.usedFrame, entry.frame_index) ELSE acc.usedFrame
             p == ParseItems(entry.ConfigBits_ranges, 1, <<>>)
         IN IF p.err # "none" THEN [acc EXCEPT !.err = "ValueError", !.stage = "range"]
            ELSE IF Len(p.order) # bitsUsedInFrame
            THEN [acc EXCEPT !.err = "ValueError", !.stage = "count"]
            ELSE ParseEntries(Tail(rows),
                              [acc EXCEPT !.usedFrame = used,
                                          !.allConfigBitsOrder = @ \o p.order])

\* the mapping row the latch loop reads for an entry of usedFrame
LatchRow(rows, frame) == rows[frame + 1]

\* lines 234-243
RECURSIVE LatchBits(_, _, _, _, _)
LatchBits(acc, rows, frame, k, frameBits) ==
    IF k >= frameBits \/ acc.err # "none" THEN acc
    ELSE IF LatchRow(rows, frame).used_bits_mask[k + 1] # "1"
    THEN LatchBits(acc, rows, frame, k + 1, frameBits)
    ELSE IF acc.allConfigBitsCounter >= Len(acc.allConfigBitsOrder)
    THEN [acc EXCEPT !.err = "IndexError", !.stage = "latch"]
    ELSE LatchBits(
           [acc EXCEPT
              !.latches = Append(@,
                 [frameName |-> LatchRow(rows, frame).frame_name,
                  frameBitsPerRow |-> frameBits - 1 - k,
                  frameIndex |-> frame,
                  configBit |-> acc.allConfigBitsOrder[acc.allConfigBitsCounter + 1]]),
              !.allConfigBitsCounter = @ + 1],
           rows, frame, k + 1, frameBits)

RECURSIVE LatchFrames(_, _, _, _)
LatchFrames(acc, rows, n, frameBits) ==
    IF n > Len(acc.usedFrame) \/ acc.err # "none" THEN acc
    ELSE IF acc.usedFrame[n] + 1 \notin DOMAIN rows
    THEN [acc EXCEPT !.err = "IndexError", !.stage = "latch"]
    ELSE LatchFrames(LatchBits(acc, rows, acc.usedFrame[n], 0, frameBits),
                     rows, n + 1, frameBits)

\* the mapping generateConfigMem reads: the explicit file when it exists,
\* else the init file it has just written
\* lines 114-124: os.path.exists tests the file passed as configMemCsv, open
\* takes <tile>_ConfigMem.csv or <tile>_ConfigMem.init.csv of the current
\* directory; NoMapping where the file opened does not exist
OpenedMapping(configMemCsv, mapping, init) ==
    IF configMemCsv # NoMapping THEN mapping ELSE init

\* the same when the file passed is the one of the current directory
UsedMapping(mapping, init) == OpenedMapping(mapping, mapping, init)

\* the count of the switch matrix replacing the tile's count
AddMatrixBitsOverwrite(globalConfigBits, configBit) == configBit

\* line 104
AddMatrixBits(globalConfigBits, configBit) == globalConfigBits + configBit

\* configMemCsv is the content of the file at the path passed, mapping that
\* of <tile>_ConfigMem.csv in the current directory
generateConfigMem(t, matrix, configMemCsv, mapping, frameBits, maxFrames) ==
    LET none == [tile |-> t, init |-> NoMapping, status |-> "FileNotFoundError",
                 stage |-> "open", latches |-> <<>>, usedFrame |-> <<>>,
                 allConfigBitsOrder |-> <<>>, mappingFile |-> NoMapping,
                 csvFileName |-> "none"]
    IN IF matrix = NoFile THEN none
       ELSE
       LET globalConfigBits == AddMatrixBits(t.globalConfigBits, matrix)
           init == generateConfigMemInit(globalConfigBits, frameBits, maxFrames)
           raw == OpenedMapping(configMemCsv, mapping, init)
           rows == [i \in 1..Len(raw) |->
                      [raw[i] EXCEPT !.used_bits_mask = RemoveUnderscores(@)]]
           v == Validate(rows, globalConfigBits, frameBits, maxFrames)
           base == [none EXCEPT !.tile = [t EXCEPT !.globalConfigBits = globalConfigBits],
                                !.init = init,
                                !.mappingFile = raw,
                                !.csvFileName = IF configMemCsv # NoMapping
                                                THEN "ConfigMem.csv"
                                                ELSE "ConfigMem.init.csv"]
       IN IF raw = NoMapping THEN [base EXCEPT !.stage = "mapping"]
          ELSE IF v # "none" THEN [base EXCEPT !.status = "ValueError", !.stage = v]
          ELSE
          LET p == ParseEntries(rows, [err |-> "none", stage |-> "none", usedFrame |-> <<>>,
                                       allConfigBitsOrder |-> <<>>])
          IN IF p.err # "none" THEN [base EXCEPT !.status = p.err, !.stage = p.stage]
             ELSE
             LET l == LatchFrames([err |-> "none", stage |-> "none", latches |-> <<>>,
                                   allConfigBitsCounter |-> 0, usedFrame |-> p.usedFrame,
                                   allConfigBitsOrder |-> p.allConfigBitsOrder],
                                  rows, 1, frameBits)
             IN [base EXCEPT !.status = IF l.err = "none" THEN "ok" ELSE l.err,
                             !.stage = IF l.err = "none" THEN "done" ELSE l.stage,
                             !.latches = l.latches,
                             !.usedFrame = p.usedFrame,
                             !.allConfigBitsOrder = p.allConfigBitsOrder]

\* ------------------------------------------------------------------ inputs
MUX8 == [belType |-> "MUX8LUT_frame_config", configBit |-> 2]
CFG == [belType |-> "Config_access", configBit |-> 4]
IOPAD == [belType |-> "IO_1_bidirectional_frame_config_pass", configBit |-> 0]

BelLists == {<<>>, <<MUX8>>, <<IOPAD, MUX8, CFG>>}

\* the cells of a table row: fan-in 0 to 3 over p0, p1, p2, or q0 alone, or
\* p0 with the constant GND0
RowCells == {<<"0", "0", "0", "0", "0">>, <<"1", "0", "0", "0", "0">>,
             <<"1", "1", "0", "0", "0">>, <<"0", "1", "1", "0", "0">>,
             <<"1", "1", "1", "0", "0">>, <<"0", "0", "0", "1", "0">>,
             <<"1", "0", "0", "0", "1">>}

\* a table of n rows; the trailing count cell of a row is its number of 1s
TablesOf(n) ==
    {[y \in 1..n |-> [name |-> SinkNames[y], cells |-> cs[y], count |-> CountOnes(cs[y])]] :
        cs \in [1..n -> RowCells]}

Tables == UNION {TablesOf(n) : n \in 0..Len(SinkNames)}

\* masks of the given length, by the positions of their 1s
MaskAt(len, positions) == [i \in 1..len |-> IF i \in positions THEN "1" ELSE "0"]

\* the (mask, ranges) pairs a mapping row is drawn from
EntryShapes(frameBits) ==
    {[mask |-> MaskAt(frameBits, {}), ranges |-> <<Null>>]}
    \cup {[mask |-> MaskAt(frameBits, {p}), ranges |-> <<Single(c)>>] :
             p \in {1, frameBits}, c \in 0..MaxIndex}
    \cup {[mask |-> MaskAt(frameBits, {1, frameBits}), ranges |-> <<Range(ab[1], ab[2])>>] :
             ab \in {x \in (0..MaxIndex) \X (0..MaxIndex) : x[1] # x[2]}}
    \cup {[mask |-> MaskAt(frameBits, {1, frameBits}), ranges |-> <<Single(0), Single(b)>>] :
             b \in {0, MaxIndex}}
    \cup {[mask |-> MaskAt(frameBits, {1, frameBits}),
           ranges |-> <<Range(MaxIndex, 0), Single(0)>>],
          [mask |-> MaskAt(frameBits + 1, {1}), ranges |-> <<Single(0)>>],
          [mask |-> <<"1", "_">> \o Zeros(frameBits - 1), ranges |-> <<Single(0)>>]}

MappingRows(frameBits) ==
    {[frame_name |-> <<"frame", n>>, frame_index |-> n,
      used_bits_mask |-> e.mask, ConfigBits_ranges |-> e.ranges] :
        n \in 0..1, e \in EntryShapes(frameBits)}

Mappings(frameBits) ==
    UNION {[1..n -> MappingRows(frameBits)] : n \in 1..2}

\* (FrameBitsPerRow, MaxFramesPerCol) of the fabric file; the defaults are 32, 20
Parameters == {<<2, 2>>, <<32, 2>>, <<33, 2>>}

NoResult == [status |-> "none"]

\* a row of FabricWidth tiles of type T, which has no wires
PlainFabric ==
    [fabric |-> <<[x \in 1..FabricWidth |-> "T"]>>, tiles |-> [T |-> <<>>]]

\* the wire lines of a tile type: direction, source, X-offset, Y-offset,
\* destination, wires
East(xoffset, yoffset, wire_count) ==
    [direction |-> "EAST", source |-> "E1BEG", xoffset |-> xoffset,
     yoffset |-> yoffset, destination |-> "E1END", wire_count |-> wire_count]

EastTerminated ==
    [direction |-> "EAST", source |-> "E1BEG", xoffset |-> 1,
     yoffset |-> 0, destination |-> "NULL", wire_count |-> 1]

EastArriving ==
    [direction |-> "EAST", source |-> "NULL", xoffset |-> 0,
     yoffset |-> 0, destination |-> "E1END", wire_count |-> 1]

Jump ==
    [direction |-> "JUMP", source |-> "J_BEG", xoffset |-> 0,
     yoffset |-> 0, destination |-> "J_END", wire_count |-> 2]

\* type T sends one wire east (straight, diagonal, or spanning two tiles) or
\* none; type U declares the arriving port only
WireLists ==
    {<<>>, <<Jump>>, <<East(1, 0, 1)>>, <<Jump, East(1, 0, 2)>>, <<East(2, 0, 1)>>,
     <<East(1, 1, 1)>>, <<East(2, 1, 1)>>, <<East(1, 2, 1)>>, <<EastTerminated>>}

\* a grid with one T, at most one U and NULL elsewhere
GridWith(width, height, atT, atU) ==
    [i \in 1..height |->
        [j \in 1..width |-> IF <<j - 1, i - 1>> = atT THEN "T"
                            ELSE IF <<j - 1, i - 1>> = atU THEN "U"
                            ELSE "NULL"]]

Grids ==
    {GridWith(FabricWidth, height, <<0, 0>>, atU) :
        height \in 1..2, atU \in (0..(FabricWidth - 1)) \X (0..1)}
    \cup {PlainFabric.fabric}

FabricFiles ==
    {[fabric |-> g, tiles |-> [T |-> w, U |-> <<EastArriving>>]] :
        g \in Grids, w \in WireLists}

North(yoffset, wire_count) ==
    [direction |-> "NORTH", source |-> "N1BEG", xoffset |-> 0,
     yoffset |-> yoffset, destination |-> "N1END", wire_count |-> wire_count]

NorthArriving ==
    [direction |-> "NORTH", source |-> "NULL", xoffset |-> 0,
     yoffset |-> 0, destination |-> "N1END", wire_count |-> 1]

\* n tiles of type T in a row, ended in the east by a tile of type U
ChainRow(n) == <<[x \in 1..(n + 1) |-> IF x <= n THEN "T" ELSE "U"]>>

\* n tiles of type T in a column, ended in the north (row 0) by a U
ChainColumn(n) == [y \in 1..(n + 1) |-> <<IF y = 1 THEN "U" ELSE "T">>]

\* fabrics whose tiles all declare one wire that spans m tiles, east or north,
\* U declaring the arriving end
ChainFiles ==
    {[fabric |-> ChainRow(n), tiles |-> [T |-> <<East(m, 0, w)>>, U |-> <<EastArriving>>]] :
        n \in 2..(MaxSpan + 1), m \in 2..MaxSpan, w \in 1..MaxWireCount}
    \cup
    {[fabric |-> ChainColumn(n),
      tiles |-> [T |-> <<North(0 - m, w)>>, U |-> <<NorthArriving>>]] :
        n \in 2..(MaxSpan + 1), m \in 2..MaxSpan, w \in 1..MaxWireCount}

\* no file but the fabric csv in the current directory
NoCwdFiles == [csvFile |-> <<>>, mappingFile |-> NoMapping]

\* a run of single options from the source directory, frame-based, on a
\* fabric without super tiles
PlainRun ==
    /\ ConfigBitMode = "frame_based"
    /\ src_dir = "."
    /\ cwdFiles = NoCwdFiles
    /\ pc = 0
    /\ tileMap = <<>>
    /\ superTileHDL = NoResult

\* a BEL line of a tile type: the bel file and the prefix
Bel(file, prefix) == [direction |-> "BEL", file |-> file, prefix |-> prefix]

\* fabrics of a T beside a U whose types declare different bels, or none
BelFiles ==
    {[fabric |-> <<<<"T", "U">>>>, tiles |-> [T |-> t, U |-> <<EastArriving>> \o u]] :
        t \in {<<Bel("LUT.vhdl", "LA_")>>, <<East(1, 0, 1), Bel("LUT.vhdl", "")>>},
        u \in {<<>>, <<Bel("IO.vhdl", "A_")>>, <<Bel("LUT.vhdl", "LA_")>>}}

NothingGenerated ==
    /\ initFile = NoMapping
    /\ matrixFile = NoFile
    /\ sm = NoResult
    /\ tl = NoResult
    /\ cm = NoResult
    /\ bs = NoResult
    /\ tileObject = FreshTile(bels)

\* the switch-matrix family: every table and bel list, default frame mapping
Init ==
    /\ FrameBitsPerRow = 32
    /\ MaxFramesPerCol = 2
    /\ bels \in BelLists
    /\ csvFile \in Tables
    /\ mappingFile = NoMapping
    /\ FabricFile = PlainFabric
    /\ PlainRun
    /\ NothingGenerated

\* the frame-mapping family: explicit mapping files for a tile of two bits
InitConfigMem ==
    /\ \E pr \in Parameters : FrameBitsPerRow = pr[1] /\ MaxFramesPerCol = pr[2]
    /\ bels = <<MUX8>>
    /\ csvFile = <<>>
    /\ mappingFile \in Mappings(FrameBitsPerRow)
    /\ FabricFile = PlainFabric
    /\ PlainRun
    /\ NothingGenerated

\* the ConfigBits_ranges texts of a frame of four used bits, among them
\* "5:3;1" and "0:1;4:5", and of a frame of two
RangesOfFour ==
    {<<Range(5, 3), Single(1)>>, <<Range(0, 1), Range(4, 5)>>, <<Range(3, 0)>>,
     <<Range(0, 3)>>, <<Range(5, 2)>>, <<Single(3), Single(2), Single(1), Single(0)>>}

SecondFrames ==
    {[mask |-> <<"0", "0", "0", "0">>, ranges |-> <<Null>>],
     [mask |-> <<"1", "1", "0", "0">>, ranges |-> <<Range(1, 0)>>],
     [mask |-> <<"1", "1", "0", "0">>, ranges |-> <<Single(2), Single(0)>>]}

ScenarioMappings ==
    {<<[frame_name |-> <<"frame", 0>>, frame_index |-> 0,
        used_bits_mask |-> <<"1", "1", "1", "1">>, ConfigBits_ranges |-> r],
       [frame_name |-> <<"frame", 1>>, frame_index |-> 1,
        used_bits_mask |-> e.mask, ConfigBits_ranges |-> e.ranges]>> :
        r \in RangesOfFour, e \in SecondFrames}

\* frames of four bits: tiles of four to six configuration bits with the
\* default mapping or a mapping whose first frame is fully used
InitScenario ==
    /\ FrameBitsPerRow = 4
    /\ MaxFramesPerCol = 2
    /\ bels \in {<<CFG>>, <<MUX8, CFG>>}
    /\ csvFile \in TablesOf(0) \cup TablesOf(1)
    /\ mappingFile \in {NoMapping} \cup ScenarioMappings
    /\ FabricFile = PlainFabric
    /\ PlainRun
    /\ NothingGenerated

\* the empty table, and the tables of one row with fan-in [p0] or [p0, p1]
FabricTables ==
    TablesOf(0)
    \cup {t \in TablesOf(1) :
             t[1].cells[1] = "1" /\ t[1].cells[3] = "0" /\ t[1].cells[5] = "0"}

\* the fabric family: grids with NULL cells and tile types with wires, and
\* chains of tiles that declare a wire spanning several of them; a tile
\* without bels, a table of at most one row, the default frame mapping
InitFabric ==
    /\ FrameBitsPerRow = 4
    /\ MaxFramesPerCol = 2
    /\ bels = <<>>
    /\ csvFile \in FabricTables
    /\ mappingFile = NoMapping
    /\ FabricFile \in FabricFiles \cup ChainFiles \cup BelFiles
    /\ PlainRun
    /\ NothingGenerated

\* the ConfigBitMode entries of the parameter section; the default of the
\* module is FlipFlopChain
Modes == {"ff_chain", "FlipFlopChain", "frame_based", "frame"}

\* the mode family: every table under every mode
InitModes ==
    /\ FrameBitsPerRow = 32
    /\ MaxFramesPerCol = 2
    /\ bels = <<MUX8>>
    /\ csvFile \in Tables
    /\ mappingFile = NoMapping
    /\ FabricFile = PlainFabric
    /\ ConfigBitMode \in Modes
    /\ src_dir = "."
    /\ cwdFiles = NoCwdFiles
    /\ pc = 0
    /\ tileMap = <<>>
    /\ superTileHDL = NoResult
    /\ NothingGenerated

\* mappings of one row, for frames of two bits
OneRowMappings == {m \in Mappings(2) : Len(m) = 1}

\* the directory family: a run from the source directory or from another
\* directory that may hold a mapping file of the same name
InitDirs ==
    /\ FrameBitsPerRow = 2
    /\ MaxFramesPerCol = 2
    /\ bels = <<MUX8>>
    /\ csvFile = <<>>
    /\ mappingFile \in {NoMapping} \cup OneRowMappings
    /\ FabricFile = PlainFabric
    /\ ConfigBitMode = "frame_based"
    /\ src_dir \in {".", "src"}
    /\ cwdFiles \in IF src_dir = "." THEN {NoCwdFiles}
                     ELSE {[csvFile |-> <<>>, mappingFile |-> m] :
                              m \in {NoMapping} \cup OneRowMappings}
    /\ pc = 0
    /\ tileMap = <<>>
    /\ superTileHDL = NoResult
    /\ NothingGenerated

\* the tile maps of a super tile: rectangles of tiles A and B and empty cells
TileMaps ==
    UNION {[1..height -> [1..width -> {"A", "B", "None"}]] :
              width \in 1..MaxMapSide, height \in 1..MaxMapSide}

\* the super-tile family: a fabric with one super tile
InitSuperTile ==
    /\ FrameBitsPerRow = 32
    /\ MaxFramesPerCol = 2
    /\ bels = <<>>
    /\ csvFile = <<>>
    /\ mappingFile = NoMapping
    /\ FabricFile = PlainFabric
    /\ ConfigBitMode = "frame_based"
    /\ src_dir = "."
    /\ cwdFiles = NoCwdFiles
    /\ pc = 0
    /\ tileMap \in TileMaps
    /\ superTileHDL = NoResult
    /\ NothingGenerated

\* ------------------------------------------------------------------ actions
\* <tile>_ConfigMem.csv and <tile>_ConfigMem.init.csv as a path relative to the
\* current directory finds them, and the latter as src_dir holds it
CwdMapping == IF src_dir = "." THEN mappingFile ELSE cwdFiles.mappingFile

SrcInit == IF src_dir = "." THEN initFile ELSE NoMapping

\* Each step of main parses the fabric anew and calls one generator per tile.
\* A step whose input files are those of its last run writes the same files
\* again, so each step is enabled only until it has run on its present input.

\* -GenTileSwitchMatrixVHDL
RunGenTileSwitchMatrix ==
    /\ sm.status = "none"
    /\ LET r == genTileSwitchMatrix(FreshTile(bels), csvFile)
       IN /\ sm' = [status |-> r.status, globalConfigBits |-> r.tile.globalConfigBits,
                    NumberOfConfigBits |-> r.NumberOfConfigBits, muxes |-> r.muxes,
                    debug |-> r.debug]
          /\ matrixFile' = IF r.status = "ok" THEN r.NumberOfConfigBits ELSE matrixFile
    /\ UNCHANGED args
    /\ UNCHANGED <<FrameBitsPerRow, MaxFramesPerCol, bels, csvFile, mappingFile,
                   tileObject, FabricFile, initFile, tl, cm, bs>>

\* -GenTileConfigMemVHDL; without the switch-matrix file open() raises and
\* nothing is written
RunGenerateConfigMem ==
    /\ matrixFile # NoFile
    /\ cm.status = "none"
    /\ LET r == generateConfigMem(FreshTile(bels), matrixFile, mappingFile, CwdMapping,
                                  FrameBitsPerRow, MaxFramesPerCol)
       IN /\ cm' = [status |-> r.status, stage |-> r.stage,
                    globalConfigBits |-> r.tile.globalConfigBits,
                    latches |-> IF r.status = "ok" THEN r.latches ELSE <<>>,
                    usedFrame |-> r.usedFrame,
                    allConfigBitsOrder |-> r.allConfigBitsOrder,
                    mappingFile |-> r.mappingFile,
                    csvFileName |-> r.csvFileName]
          /\ initFile' = r.init
    /\ UNCHANGED args
    /\ UNCHANGED <<FrameBitsPerRow, MaxFramesPerCol, bels, csvFile, mappingFile,
                   tileObject, FabricFile, matrixFile, sm, tl, bs>>

\* -GenTileHDL: the tiles, then the super tiles if SuperTileEnable (a fabric
\* without super tiles has the empty tile map)
RunGenerateTile ==
    /\ matrixFile # NoFile
    /\ tl.status = "none"
    /\ LET r == generateTile(FreshTile(bels), bels, matrixFile)
       IN tl' = [status |-> "ok", globalConfigBits |-> r.tile.globalConfigBits,
                 belOffsets |-> r.belOffsets, switchMatrixOffset |-> r.switchMatrixOffset]
    /\ superTileHDL' = IF tileMap = <<>> THEN superTileHDL ELSE generateSuperTile(tileMap)
    /\ UNCHANGED <<ConfigBitMode, src_dir, cwdFiles, pc, tileMap>>
    /\ UNCHANGED <<FrameBitsPerRow, MaxFramesPerCol, bels, csvFile, mappingFile,
                   tileObject, FabricFile, initFile, matrixFile, sm, cm, bs>>

\* the genFabricObject calls of one run of main, in order: each call finds in
\* Fabric.tiles what the calls before it left; a call that raises ends the run
RECURSIVE FabricCalls(_, _, _, _)
FabricCalls(results, classTiles, classBelPorts, n) ==
    IF n = 0 THEN results
    ELSE LET r == genFabricObject(FabricFile, csvFile, classTiles, classBelPorts,
                                  Len(results) + 1)
         IN IF r.status # "ok" THEN Append(results, r)
            ELSE FabricCalls(Append(results, r), r.tiles, r.belPorts, n - 1)

\* -GenBitstreamSpec, after `earlier` of the options -GenNextpnrModel,
\* -GenNextpnrModel_pair and -GenVPRModel given on the same command line
RunGenBitstreamSpec ==
    \E earlier \in 0..MaxEarlierCalls :
        /\ IF bs.status = "none" THEN TRUE
           ELSE bs.configCSV # SpecConfigCSV(mappingFile, SrcInit)
        /\ \E calls \in {FabricCalls(<<>>, <<>>, {}, earlier + 1)} :
           \E specObject \in
                 {IF calls[Len(calls)].status # "ok"
                  THEN [NoSpecData EXCEPT !.status = calls[Len(calls)].status]
                  ELSE genBitstreamSpec(calls[Len(calls)], mappingFile, SrcInit, bels,
                                        csvFile, FrameBitsPerRow, MaxFramesPerCol)} :
              bs' = [status |-> specObject.status,
                     TileSpecs |-> specObject.TileSpecs,
                     TileSpecs_No_Mask |-> specObject.TileSpecs_No_Mask,
                     trace |-> specObject.trace,
                     encodeDict |-> specObject.encodeDict,
                     encoded |-> specObject.encoded,
                     controlWidth |-> specObject.controlWidth,
                     configCSV |-> SpecConfigCSV(mappingFile, SrcInit),
                     earlier |-> earlier,
                     calls |-> calls]
    /\ UNCHANGED args
    /\ UNCHANGED <<FrameBitsPerRow, MaxFramesPerCol, bels, csvFile, mappingFile,
                   tileObject, FabricFile, initFile, matrixFile, sm, tl, cm>>

Next ==
    \/ RunGenTileSwitchMatrix
    \/ RunGenerateConfigMem
    \/ RunGenerateTile
    \/ RunGenBitstreamSpec

Spec == Init /\ [][Next]_vars

SpecConfigMem == InitConfigMem /\ [][Next]_vars

SpecAll == (Init \/ InitConfigMem) /\ [][Next]_vars

SpecScenario == InitScenario /\ [][Next]_vars

SpecFabric == InitFabric /\ [][Next]_vars

SpecModes == InitModes /\ [][Next]_vars

SpecDirs == InitDirs /\ [][Next]_vars

SpecSuperTile == InitSuperTile /\ [][Next]_vars

\* A caller that keeps one Tile object and hands it to the generators itself:
\* a bel list, a table of at most one multiplexer, frames of four bits with the
\* default frame mapping
InitCalls ==
    /\ FrameBitsPerRow = 4
    /\ MaxFramesPerCol = 3
    /\ bels \in BelLists
    /\ csvFile \in TablesOf(0) \cup TablesOf(1)
    /\ mappingFile = NoMapping
    /\ FabricFile = PlainFabric
    /\ PlainRun
    /\ NothingGenerated

\* genTileSwitchMatrix(tile, ...) on the kept object
CallGenTileSwitchMatrix ==
    /\ LET r == genTileSwitchMatrix(tileObject, csvFile)
       IN /\ tileObject' = r.tile
          /\ sm' = [status |-> r.status, globalConfigBits |-> r.tile.globalConfigBits,
                    NumberOfConfigBits |-> r.NumberOfConfigBits, muxes |-> r.muxes,
                    debug |-> r.debug]
          /\ matrixFile' = IF r.status = "ok" THEN r.NumberOfConfigBits ELSE matrixFile
    /\ UNCHANGED args
    /\ UNCHANGED <<FrameBitsPerRow, MaxFramesPerCol, bels, csvFile, mappingFile,
                   FabricFile, initFile, tl, cm, bs>>

\* generateConfigMem(tile, ...) on the kept object
CallGenerateConfigMem ==
    /\ matrixFile # NoFile
    /\ tileObject.globalConfigBits + matrixFile <= MaxConfigBits
    /\ LET r == generateConfigMem(tileObject, matrixFile, mappingFile, CwdMapping,
                                  FrameBitsPerRow, MaxFramesPerCol)
       IN /\ tileObject' = r.tile
          /\ cm' = [status |-> r.status, stage |-> r.stage,
                    globalConfigBits |-> r.tile.globalConfigBits,
                    latches |-> IF r.status = "ok" THEN r.latches ELSE <<>>,
                    usedFrame |-> r.usedFrame,
                    allConfigBitsOrder |-> r.allConfigBitsOrder,
                    mappingFile |-> r.mappingFile,
                    csvFileName |-> r.csvFileName]
          /\ initFile' = r.init
    /\ UNCHANGED args
    /\ UNCHANGED <<FrameBitsPerRow, MaxFramesPerCol, bels, csvFile, mappingFile,
                   FabricFile, matrixFile, sm, tl, bs>>

\* generateTile(tile) on the kept object
CallGenerateTile ==
    /\ matrixFile # NoFile
    /\ tileObject.globalConfigBits + matrixFile <= MaxConfigBits
    /\ LET r == generateTile(tileObject, bels, matrixFile)
       IN /\ tileObject' = r.tile
          /\ tl' = [status |-> "ok", globalConfigBits |-> r.tile.globalConfigBits,
                    belOffsets |-> r.belOffsets,
                    switchMatrixOffset |-> r.switchMatrixOffset]
    /\ UNCHANGED args
    /\ UNCHANGED <<FrameBitsPerRow, MaxFramesPerCol, bels, csvFile, mappingFile,
                   FabricFile, initFile, matrixFile, sm, cm, bs>>

NextCalls ==
    \/ CallGenTileSwitchMatrix
    \/ CallGenerateConfigMem
    \/ CallGenerateTile

SpecCalls == InitCalls /\ [][NextCalls]_vars

\* A run with -run_all.  pc is the position in main: the step to run next,
\* LastStep + 1 when main has ended, and -n when step n raised (which ends
\* the run); 0 is a run without -run_all.
LastStep == 9

\* the configuration memory generated before the switch matrix
StepAtConfigMemFirst(n) ==
    <<"GenTileSwitchMatrixCSV", "GenTileConfigMemVHDL", "GenTileConfigMemVerilog",
      "GenTileSwitchMatrixVHDL", "GenTileSwitchMatrixVerilog",
      "GenTileHDL", "GenTileVerilog", "GenFabricVHDL", "GenFabricVerilog">>[n]

\* the if statements of lines 4581-4675 in their order
StepAt(n) ==
    <<"GenTileSwitchMatrixCSV", "GenTileSwitchMatrixVHDL", "GenTileSwitchMatrixVerilog",
      "GenTileConfigMemVHDL", "GenTileConfigMemVerilog",
      "GenTileHDL", "GenTileVerilog", "GenFabricVHDL", "GenFabricVerilog">>[n]

AtStep(names) == IF pc \in 1..LastStep THEN StepAt(pc) \in names ELSE FALSE

\* pc after a step that returned, or that raised
After(status) == IF status = "ok" THEN pc + 1 ELSE 0 - pc

\* the run_all family: tables of up to two rows and every bel list, started in
\* the source directory or elsewhere, no explicit frame mapping
InitRunAll ==
    /\ FrameBitsPerRow = 32
    /\ MaxFramesPerCol = 2
    /\ bels \in BelLists
    /\ csvFile \in UNION {TablesOf(n) : n \in 0..2}
    /\ mappingFile = NoMapping
    /\ FabricFile = PlainFabric
    /\ ConfigBitMode = "frame_based"
    /\ src_dir \in {".", "src"}
    /\ cwdFiles = NoCwdFiles
    /\ pc = 1
    /\ tileMap = <<>>
    /\ superTileHDL = NoResult
    /\ NothingGenerated

\* lines 4581-4584: <tile>_switch_matrix.csv of the current directory is
\* opened for writing
AllBootstrap ==
    /\ AtStep({"GenTileSwitchMatrixCSV"})
    /\ IF src_dir = "."
       THEN /\ csvFile' = BootstrapSwitchMatrix(TilePorts)
            /\ UNCHANGED cwdFiles
       ELSE /\ cwdFiles' = [cwdFiles EXCEPT !.csvFile = BootstrapSwitchMatrix(TilePorts)]
            /\ UNCHANGED csvFile
    /\ pc' = pc + 1
    /\ UNCHANGED <<FrameBitsPerRow, MaxFramesPerCol, bels, mappingFile, initFile,
                   matrixFile, sm, tl, cm, bs, tileObject, FabricFile,
                   ConfigBitMode, src_dir, tileMap, superTileHDL>>

\* lines 4594-4612
AllSwitchMatrix ==
    /\ AtStep({"GenTileSwitchMatrixVHDL", "GenTileSwitchMatrixVerilog"})
    /\ LET r == genTileSwitchMatrix(FreshTile(bels), csvFile)
       IN /\ sm' = [status |-> r.status, globalConfigBits |-> r.tile.globalConfigBits,
                    NumberOfConfigBits |-> r.NumberOfConfigBits, muxes |-> r.muxes,
                    debug |-> r.debug]
          /\ matrixFile' = IF r.status = "ok" THEN r.NumberOfConfigBits ELSE matrixFile
          /\ pc' = After(r.status)
    /\ UNCHANGED <<FrameBitsPerRow, MaxFramesPerCol, bels, csvFile, mappingFile,
                   initFile, tl, cm, bs, tileObject, FabricFile,
                   ConfigBitMode, src_dir, cwdFiles, tileMap, superTileHDL>>

\* lines 4615-4632
AllConfigMem ==
    /\ AtStep({"GenTileConfigMemVHDL", "GenTileConfigMemVerilog"})
    /\ LET r == generateConfigMem(FreshTile(bels), matrixFile, mappingFile, CwdMapping,
                                  FrameBitsPerRow, MaxFramesPerCol)
       IN /\ cm' = [status |-> r.status, stage |-> r.stage,
                    globalConfigBits |-> r.tile.globalConfigBits,
                    latches |-> IF r.status = "ok" THEN r.latches ELSE <<>>,
                    usedFrame |-> r.usedFrame,
                    allConfigBitsOrder |-> r.allConfigBitsOrder,
                    mappingFile |-> r.mappingFile,
                    csvFileName |-> r.csvFileName]
          /\ initFile' = IF matrixFile = NoFile THEN initFile ELSE r.init
          /\ pc' = After(r.status)
    /\ UNCHANGED <<FrameBitsPerRow, MaxFramesPerCol, bels, csvFile, mappingFile,
                   matrixFile, sm, tl, bs, tileObject, FabricFile,
                   ConfigBitMode, src_dir, cwdFiles, tileMap, superTileHDL>>

\* lines 4634-4663; open(tile.matrixDir) raises when the file is not there
AllTile ==
    /\ AtStep({"GenTileHDL", "GenTileVerilog"})
    /\ IF matrixFile = NoFile
       THEN /\ tl' = [status |-> "FileNotFoundError"]
            /\ pc' = After("FileNotFoundError")
            /\ UNCHANGED superTileHDL
       ELSE /\ LET r == generateTile(FreshTile(bels), bels, matrixFile)
               IN tl' = [status |-> "ok", globalConfigBits |-> r.tile.globalConfigBits,
                         belOffsets |-> r.belOffsets,
                         switchMatrixOffset |-> r.switchMatrixOffset]
            /\ superTileHDL' = IF tileMap = <<>> THEN superTileHDL
                               ELSE generateSuperTile(tileMap)
            /\ pc' = After(IF tileMap = <<>> THEN "ok"
                           ELSE generateSuperTile(tileMap).status)
    /\ UNCHANGED <<FrameBitsPerRow, MaxFramesPerCol, bels, csvFile, mappingFile,
                   initFile, matrixFile, sm, cm, bs, tileObject, FabricFile,
                   ConfigBitMode, src_dir, cwdFiles, tileMap>>

\* lines 4665-4675: generateFabric reads the fabric and writes the fabric HDL,
\* which no other step reads
AllFabric ==
    /\ AtStep({"GenFabricVHDL", "GenFabricVerilog"})
    /\ pc' = pc + 1
    /\ UNCHANGED <<FrameBitsPerRow, MaxFramesPerCol, bels, csvFile, mappingFile,
                   initFile, matrixFile, sm, tl, cm, bs, tileObject, FabricFile,
                   ConfigBitMode, src_dir, cwdFiles, tileMap, superTileHDL>>

NextRunAll ==
    \/ AllBootstrap
    \/ AllSwitchMatrix
    \/ AllConfigMem
    \/ AllTile
    \/ AllFabric

SpecRunAll == InitRunAll /\ [][NextRunAll]_vars

\* ------------------------------------------------------------------ claims
Locs == {genTileLoc(x, 0) : x \in 0..(FabricWidth - 1)}

\* -GenBitstreamSpec has run and genFabricObject returned, so that
\* genBitstreamSpec was called
SpecRan ==
    IF bs.status = "none" THEN FALSE ELSE bs.calls[Len(bs.calls)].status = "ok"

MinOf(S) == CHOOSE x \in S : \A y \in S : x <= y

RECURSIVE WeightedSum(_, _, _)
WeightedSum(bitmap, positions, lowest) ==
    IF positions = {} THEN 0
    ELSE LET b == MinOf(positions)
         IN (IF bitmap[b] = "1" THEN Pow2(b - lowest) ELSE 0)
                + WeightedSum(bitmap, positions \ {b}, lowest)

\* the select value a bit-map holds, its lowest position being bit 0 of the
\* select field, as in ConfigBits(new-1 downto old)
EncodedSelect(bitmap) ==
    IF DOMAIN bitmap = {} THEN 0
    ELSE WeightedSum(bitmap, DOMAIN bitmap, MinOf(DOMAIN bitmap))

FanIn(y) == parseMatrix(csvFile)[y].conns

TablesDone == sm.status = "ok" /\ bs.status = "ok" /\ DOMAIN bs.TileSpecs_No_Mask = Locs

\* C1: for every destination with N >= 2 sources [s0..s(N-1)] and every k < N,
\* the emitted multiplexer routes sk at select value k, and the feature-table
\* entry of the pip (sk, destination) holds the select value k on
\* ceil(log2(N)) bits, so both resolve k to the same source.
C1_SelectValuesAgree ==
    TablesDone =>
        \A loc \in Locs : \A y \in 1..Len(csvFile) :
            LET conns == FanIn(y)
                N == Len(conns)
            IN N >= 2 =>
                 \A k \in 0..(N - 1) :
                    LET entry == bs.TileSpecs_No_Mask[loc][PipName(conns[k + 1], csvFile[y].name)]
                    IN /\ MuxRoute(sm.muxes[y], k) = conns[k + 1]
                       /\ Cardinality(DOMAIN entry) = CeilLog2(N)
                       /\ EncodedSelect(entry) = k
                       /\ MuxRoute(sm.muxes[y], EncodedSelect(entry)) = conns[k + 1]

C1_Witness ==
    /\ TablesDone
    /\ \E y \in 1..Len(csvFile) :
          /\ FanIn(y) = <<"p0", "p1", "p2">>
          /\ MuxRoute(sm.muxes[y], 2) = "p2"
          /\ EncodedSelect(bs.TileSpecs_No_Mask[genTileLoc(0, 0)]
                              [PipName("p2", csvFile[y].name)]) = 2

AllDone == TablesDone /\ tl.status = "ok"

\* C3: at every bel and every table row genBitstreamSpec visits, curBitOffset
\* equals the hardware offset: generateTile's belConfigBitsCounter for a bel,
\* the sum of the bels' configBit plus genTileSwitchMatrix's
\* configBitstreamPosition for a row.
C3_OffsetsAgree ==
    AllDone =>
        \A loc \in Locs :
            /\ bs.trace[loc].belAt = tl.belOffsets
            /\ \A y \in 1..Len(csvFile) :
                  bs.trace[loc].rowAt[y]
                      = tl.switchMatrixOffset + sm.muxes[y].oldConfigBitstreamPosition

\* C8: a destination with fan-in 0 or 1 leaves the bit cursor where it was, in
\* genTileSwitchMatrix and in genBitstreamSpec (which does not fail on it), and
\* its fixed connection has a feature-table entry with an empty bit-map.
C8_SmallFanInAllocatesNothing ==
    (sm.status = "ok" /\ SpecRan /\ bs.configCSV # NoMapping) =>
        /\ bs.status # "UnboundLocalError"
        /\ bs.status = "ok" =>
             \A loc \in Locs : \A y \in 1..Len(csvFile) :
                Len(FanIn(y)) < 2 =>
                    /\ sm.muxes[y].configBitstreamPosition
                           = sm.muxes[y].oldConfigBitstreamPosition
                    /\ bs.trace[loc].rowEnd[y] = bs.trace[loc].rowAt[y]
                    /\ \A n \in 1..Len(FanIn(y)) :
                          bs.TileSpecs_No_Mask[loc][PipName(FanIn(y)[n], csvFile[y].name)]
                              = EmptyDict

ScenarioC9 ==
    /\ bels = <<MUX8>>
    /\ csvFile = <<[name |-> "M1", cells |-> <<"1", "1", "1", "0", "0">>, count |-> 3],
                   [name |-> "M2", cells |-> <<"0", "0", "0", "1", "0">>, count |-> 1]>>

ScenarioC9Done == ScenarioC9 /\ TablesDone /\ cm.status = "ok" /\ tl.status = "ok"

\* C9 as amended: one bel of configBit 2, M1 = [p0,p1,p2], M2 = [q0]: the tile
\* has 4 configuration bits, the entry selecting p1 on M1 holds '1' on logical
\* bit 2 and '0' on logical bit 3 (select field ConfigBits(3 downto 2) = "01"),
\* and the entry for q0 on M2 is empty.
C9_Scenario ==
    ScenarioC9Done =>
        /\ cm.globalConfigBits = 4
        /\ tl.globalConfigBits = 4
        /\ tl.switchMatrixOffset + sm.muxes[1].oldConfigBitstreamPosition = 2
        /\ MuxRoute(sm.muxes[1], 1) = "p1"
        /\ \A loc \in Locs :
              /\ bs.TileSpecs_No_Mask[loc][PipName("p1", "M1")] = (2 :> "1" @@ 3 :> "0")
              /\ bs.TileSpecs_No_Mask[loc][PipName("q0", "M2")] = EmptyDict

C9_Witness == ScenarioC9Done

\* C9 as stated: '0' on logical bit 2 and '1' on logical bit 3.
C9_Original ==
    ScenarioC9Done =>
        /\ cm.globalConfigBits = 4
        /\ \A loc \in Locs :
              /\ bs.TileSpecs_No_Mask[loc][PipName("p1", "M1")] = (2 :> "0" @@ 3 :> "1")
              /\ bs.TileSpecs_No_Mask[loc][PipName("q0", "M2")] = EmptyDict

\* the keys of a tile's feature table that name a pip into the destination
KeysInto(loc, dest, names) ==
    {key \in DOMAIN bs.TileSpecs_No_Mask[loc] : key[2] = "." /\ dest \in {key[n] : n \in names}}

Masks == [n \in 1..Len(mappingFile) |-> RemoveUnderscores(mappingFile[n].used_bits_mask)]

SpecReadMapping == SpecRan /\ bs.configCSV = mappingFile

\* C2: for every mapping generateConfigMem accepts, genBitstreamSpec builds
\* encodeDict from it and, for every latch of logical bit b on frame-data bit
\* FrameBitsPerRow-1-k under strobe f, encodeDict[b] is
\* f*FrameBitsPerRow + (FrameBitsPerRow-1-k).
C2_ConsumersAgree ==
    (cm.status = "ok" /\ mappingFile # NoMapping /\ SpecReadMapping) =>
        /\ bs.encoded
        /\ \A n \in 1..Len(cm.latches) :
              bs.encodeDict[cm.latches[n].configBit]
                  = cm.latches[n].frameIndex * FrameBitsPerRow
                        + cm.latches[n].frameBitsPerRow

\* the logical indices a row's ConfigBits_ranges gives to the used bits of
\* its mask
Assigned(n) ==
    LET named == ConfigEncode(mappingFile[n].ConfigBits_ranges).list
        used == Len(SelectSeq(Masks[n], LAMBDA c : c # "0"))
    IN {named[j] : j \in 1..(IF used < Len(named) THEN used ELSE Len(named))}

WellFormedFrames ==
    /\ \A n \in 1..Len(mappingFile) :
          /\ Len(Masks[n]) = FrameBitsPerRow
          /\ mappingFile[n].frame_index \in 0..(MaxFramesPerCol - 1)
    /\ \A n, m \in 1..Len(mappingFile) :
          n # m => mappingFile[n].frame_index # mappingFile[m].frame_index

\* C5: when the masks all have length FrameBitsPerRow and the frame indices
\* are distinct and below MaxFramesPerCol, the encodeDict genBitstreamSpec
\* builds gives distinct physical indices to distinct logical indices.
C5_EncodeDictInjective ==
    (mappingFile # NoMapping /\ SpecReadMapping /\ bs.encoded /\ WellFormedFrames) =>
        \A n, m \in 1..Len(mappingFile) :
            \A a \in Assigned(n) : \A b \in Assigned(m) :
                a # b => bs.encodeDict[a] # bs.encodeDict[b]

ValidationStages == {"rows", "ones", "length", "total"}

\* C6: generateConfigMem raises ValueError and emits no latch when the
\* mapping's row count differs from MaxFramesPerCol, or a mask without its
\* underscores has a length different from FrameBitsPerRow, or the number of
\* '1's over all masks differs from tile.globalConfigBits; any other mapping
\* passes the validation stage.
C6_Validation ==
    (cm.status # "none" /\ mappingFile # NoMapping) =>
        LET invalid ==
               \/ Len(mappingFile) # MaxFramesPerCol
               \/ \E n \in 1..Len(mappingFile) : Len(Masks[n]) # FrameBitsPerRow
               \/ SumSeq([n \in 1..Len(mappingFile) |-> CountOnes(Masks[n])])
                      # cm.globalConfigBits
        IN IF invalid
           THEN cm.status = "ValueError" /\ cm.stage \in ValidationStages
                    /\ cm.latches = <<>>
           ELSE cm.stage \notin ValidationStages

C6_Witness ==
    /\ cm.status = "ValueError"
    /\ cm.stage = "length"
    /\ cm.latches = <<>>
    /\ Len(mappingFile) = MaxFramesPerCol
    /\ \E n \in 1..Len(mappingFile) : Len(Masks[n]) # FrameBitsPerRow
    /\ SumSeq([n \in 1..Len(mappingFile) |-> CountOnes(Masks[n])]) = cm.globalConfigBits

\* the logical indices the items of a row's ConfigBits_ranges claim
RECURSIVE Claims(_)
Claims(items) ==
    IF items = <<>> THEN <<>>
    ELSE (IF Head(items).t = "range" THEN NumList(Head(items).l, Head(items).r)
          ELSE IF Head(items).t = "single" THEN <<Head(items).l>>
          ELSE <<>>) \o Claims(Tail(items))

RECURSIVE AllClaims(_)
AllClaims(rows) ==
    IF rows = <<>> THEN <<>>
    ELSE Claims(Head(rows).ConfigBits_ranges) \o AllClaims(Tail(rows))

ClaimedTwice ==
    LET all == AllClaims(mappingFile)
    IN \E i, j \in 1..Len(all) : i # j /\ all[i] = all[j]

\* C7: generateConfigMem raises ValueError, and emits no latch, whenever a
\* logical index is claimed twice in the mapping, inside one frame's
\* ConfigBits_ranges or in those of two frames.
C7_DoubleClaimRejected ==
    (cm.status # "none" /\ mappingFile # NoMapping /\ ClaimedTwice) =>
        cm.status = "ValueError" /\ cm.latches = <<>>

\* C4: when generateConfigMem accepts the mapping of a tile, the '1's of all
\* frame masks number tile.globalConfigBits, which is the sum of the bels'
\* configBit plus the sum of ceil(log2(N)) over the multiplexers with N >= 2.
C4_BitConservation ==
    cm.status = "ok" =>
        LET rows == UsedMapping(mappingFile, initFile)
            ones == SumSeq([n \in 1..Len(rows) |->
                              CountOnes(RemoveUnderscores(rows[n].used_bits_mask))])
            belBits == SumSeq([n \in 1..Len(bels) |-> bels[n].configBit])
            muxBits == SumSeq([y \in 1..Len(csvFile) |->
                                 IF Len(FanIn(y)) >= 2 THEN CeilLog2(Len(FanIn(y))) ELSE 0])
        IN /\ ones = cm.globalConfigBits
           /\ cm.globalConfigBits = belBits + muxBits

C4_Witness ==
    /\ cm.status = "ok"
    /\ Len(bels) = 3
    /\ \E y \in 1..Len(csvFile) : Len(FanIn(y)) = 3
    /\ cm.globalConfigBits >= 8

\* ------------------------------------------------ claims on the allocator
\* the ConfigBits indices the emission pass gives the multiplexer of row y
MuxBits(y) ==
    sm.muxes[y].oldConfigBitstreamPosition..(sm.muxes[y].configBitstreamPosition - 1)

Configurable == {y \in 1..Len(csvFile) : Len(FanIn(y)) >= 2}

\* C20: the multiplexers with N >= 2 receive, in table order, ranges of
\* ceil(log2(N)) bits that are pairwise disjoint and cover 0..cursor-1 without
\* a gap, and the final cursor is the NumberOfConfigBits of the file header
\* and tile.globalConfigBits.
C20_CursorRanges ==
    sm.status = "ok" =>
        /\ \A y \in Configurable :
              /\ Cardinality(MuxBits(y)) = CeilLog2(Len(FanIn(y)))
              /\ sm.muxes[y].kind = "mux"
        /\ \A y, z \in Configurable :
              y < z => \A b \in MuxBits(y) : \A c \in MuxBits(z) : b < c
        /\ UNION {MuxBits(y) : y \in Configurable} = 0..(sm.NumberOfConfigBits - 1)
        /\ sm.globalConfigBits = sm.NumberOfConfigBits

C20_Witness ==
    /\ sm.status = "ok"
    /\ Len(csvFile) = 3
    /\ Len(FanIn(1)) = 3 /\ Len(FanIn(2)) < 2 /\ Len(FanIn(3)) = 2
    /\ MuxBits(1) = {0, 1} /\ MuxBits(3) = {2}
    /\ sm.NumberOfConfigBits = 3

\* the latches the mapping asks for: for every entry, the j-th '1' of its mask
\* (position k from 0) latches frame-data bit FrameBitsPerRow-1-k under the
\* strobe of the entry's frame_index into the entry's j-th logical index
EntryLatches(n) ==
    LET mask == Masks[n]
        order == Claims(mappingFile[n].ConfigBits_ranges)
        ones(k) == CountOnes(SubSeq(mask, 1, k))
    IN {[frameIndex |-> mappingFile[n].frame_index,
         frameBitsPerRow |-> FrameBitsPerRow - k,
         configBit |-> order[ones(k)]] :
            k \in {i \in 1..Len(mask) : mask[i] = "1" /\ ones(i) <= Len(order)}}

StrippedLatches ==
    {[frameIndex |-> cm.latches[n].frameIndex,
      frameBitsPerRow |-> cm.latches[n].frameBitsPerRow,
      configBit |-> cm.latches[n].configBit] : n \in 1..Len(cm.latches)}

\* C19: the latches generateConfigMem emits are, entry by entry, those of the
\* entry's own mask, frame_index and ConfigBits_ranges, whatever the order of
\* the rows and the frame_index values they carry.
C19_LatchesFollowEntries ==
    (cm.status = "ok" /\ mappingFile # NoMapping) =>
        StrippedLatches = UNION {EntryLatches(n) : n \in 1..Len(mappingFile)}

\* every row names as many indices as its mask has '1's and no index is
\* named twice
RangesFitMasks ==
    /\ \A n \in 1..Len(mappingFile) :
          Len(Claims(mappingFile[n].ConfigBits_ranges)) = CountOnes(Masks[n])
    /\ ~ClaimedTwice

\* C16: generateConfigMem turns the ';'-separated items of every
\* ConfigBits_ranges text, single indices and ranges a:b alike, into the
\* concatenation of their indices in item order, a range in its written
\* direction: "5:3;1" gives [5,4,3,1], "0:1;4:5" gives [0,1,4,5].
C16_RangesParsed ==
    (cm.status # "none" /\ mappingFile # NoMapping
        /\ cm.stage \notin ValidationStages /\ RangesFitMasks) =>
        /\ cm.status = "ok"
        /\ cm.allConfigBitsOrder = AllClaims(mappingFile)

ScenarioC18 ==
    /\ FrameBitsPerRow = 4
    /\ MaxFramesPerCol = 2
    /\ mappingFile = NoMapping
    /\ cm.status # "none"
    /\ cm.globalConfigBits = 6

\* C18: with FrameBitsPerRow 4, MaxFramesPerCol 2 and 6 configuration bits
\* the default mapping has the masks "1111" and "1100", generateConfigMem
\* accepts it, and the encodeDict genBitstreamSpec builds from it gives the
\* logical indices 0..5 six different physical indices.
C18_DefaultMapping ==
    ScenarioC18 =>
        /\ initFile[1].used_bits_mask = <<"1", "1", "1", "1">>
        /\ initFile[2].used_bits_mask = <<"1", "1", "0", "0">>
        /\ cm.status = "ok"
        /\ Len(cm.latches) = 6
        /\ (SpecRan /\ bs.configCSV = initFile) =>
              /\ bs.encoded
              /\ \A a \in 0..5 : bs.encodeDict[a] # -1
              /\ \A a, b \in 0..5 : a # b => bs.encodeDict[a] # bs.encodeDict[b]

C18_Witness ==
    /\ ScenarioC18
    /\ cm.status = "ok"
    /\ bs.status = "ok"
    /\ bs.configCSV = initFile
    /\ bs.encoded
    /\ Cardinality({bs.encodeDict[a] : a \in 0..5}) = 6

\* the sources named with a GND, VCC or VDD prefix
ConstantNames == {"GND0", "VCC0", "VDD0"}

RealFanIn(y) == SelectSeq(FanIn(y), LAMBDA n : n \notin ConstantNames)

RealWidth(y) == IF Len(RealFanIn(y)) >= 2 THEN CeilLog2(Len(RealFanIn(y))) ELSE 0

\* C17: a source named GND.., VCC.. or VDD.. is not counted in the size N that
\* decides a destination's width: a destination with fan-in [p0, GND0] gets
\* zero bits from genTileSwitchMatrix and from genBitstreamSpec.
C17_ConstantsNotCounted ==
    \A y \in 1..Len(csvFile) :
        (\E n \in 1..Len(FanIn(y)) : FanIn(y)[n] \in ConstantNames) =>
            /\ sm.status = "ok" =>
                  sm.muxes[y].configBitstreamPosition
                      - sm.muxes[y].oldConfigBitstreamPosition = RealWidth(y)
            /\ TablesDone =>
                  \A loc \in Locs :
                      bs.trace[loc].rowEnd[y] - bs.trace[loc].rowAt[y] = RealWidth(y)

\* C15: once a generator has been called on a Tile object, the object's
\* globalConfigBits is the sum of configBit over the tile's bels plus the sum
\* of the select widths of the multiplexers of two or more inputs, whatever
\* calls were made on it, in whatever order and however often.
DescribedBits ==
    SumSeq([n \in 1..Len(bels) |-> bels[n].configBit])
        + SumSeq([y \in 1..Len(csvFile) |->
                      IF Len(FanIn(y)) >= 2 THEN CeilLog2(Len(FanIn(y))) ELSE 0])

C15_BitCountStable ==
    sm.status = "ok" => tileObject.globalConfigBits = DescribedBits

\* ---------------------------------------------------- claims on the fabric
\* the Fabric the first genFabricObject call of the run returned, and the one
\* genBitstreamSpec was given
FirstFabric == bs.calls[1]

LastFabric == bs.calls[Len(bs.calls)]

RealTiles(fabricObject) ==
    SelectSeq(Flatten(fabricObject.tiles), LAMBDA t : t.tileType # "NULL")

ElementsOf(list) == {list[n] : n \in 1..Len(list)}

\* the cells (y, x) of the table that hold "1"
OneCells ==
    {yx \in (1..Len(csvFile)) \X (1..Len(Sources)) : csvFile[yx[1]].cells[yx[2]] = "1"}

\* C11: after genBitstreamSpec, TileSpecs has an entry for every tile of the
\* fabric that is not NULL, and the entry has a row for every pip of the switch
\* matrix, for every index of every wire and jump, and for every atomic wire
\* of the tile, whether or not the tile type has a ConfigMem csv file.
C11_EveryConnectionHasRow ==
    bs.status = "ok" =>
        \A n \in 1..Len(RealTiles(LastFabric)) :
            LET t == RealTiles(LastFabric)[n]
                loc == genTileLoc(t.x, t.y)
            IN /\ loc \in DOMAIN bs.TileSpecs
               /\ \A pr \in ElementsOf(t.pips) :
                      PipName(pr[1], pr[2]) \in DOMAIN bs.TileSpecs[loc]
               /\ \A name \in ElementsOf(WireNames(t)) :
                      name \in DOMAIN bs.TileSpecs[loc]

\* a wire line whose offset is nonzero in both axes
Diagonal(wire) ==
    IF wire.direction \in All_Directions
    THEN wire.xoffset # 0 /\ wire.yoffset # 0
    ELSE FALSE

\* C12: genFabricObject raises an error for a fabric in which a tile has a
\* wire whose xOffset and yOffset are both nonzero; it adds neither a wire nor
\* atomic wires for it.
C12_DiagonalRejected ==
    (/\ bs.status # "none"
     /\ \E n \in 1..Len(FabricFile.tiles["T"]) : Diagonal(FabricFile.tiles["T"][n]))
        => FirstFabric.status # "ok"

\* C13 as amended: row 0 of the table names the sources and the first cell of
\* each later row names a destination; a "1" in the row of destination d under
\* the column of source s makes findPipList record the pair [s, d], s among
\* the sources of d and d among the sinks of s, and makes genBitstreamSpec
\* record the row "s.d"; nothing else is recorded as a pip.
C13_ColumnIsSource ==
    (bs.status # "none" /\ FirstFabric.status = "ok") =>
        \A n \in 1..Len(RealTiles(FirstFabric)) :
            LET t == RealTiles(FirstFabric)[n]
                loc == genTileLoc(t.x, t.y)
            IN /\ ElementsOf(t.pips)
                      = {<<Sources[yx[2]], csvFile[yx[1]].name>> : yx \in OneCells}
               /\ \A yx \in OneCells :
                      /\ Sources[yx[2]] \in
                             ElementsOf(t.pipMuxes_MapSinkToSources[csvFile[yx[1]].name])
                      /\ csvFile[yx[1]].name \in
                             ElementsOf(t.pipMuxes_MapSourceToSinks[Sources[yx[2]]])
               /\ (bs.status = "ok" /\ bs.configCSV # NoMapping) =>
                      \A yx \in OneCells :
                          <<Sources[yx[2]], ".", csvFile[yx[1]].name>>
                              \in DOMAIN bs.TileSpecs[loc]

C13_Witness ==
    /\ bs.status = "ok"
    /\ bs.configCSV # NoMapping
    /\ OneCells # {}
    /\ RealTiles(FirstFabric) # <<>>
    /\ RealTiles(FirstFabric)[1].pips # <<>>

\* C13 as stated: the first cell of a row names the source and the column
\* the destination of the pip.
C13_Original ==
    (bs.status # "none" /\ FirstFabric.status = "ok") =>
        \A n \in 1..Len(RealTiles(FirstFabric)) :
            \A yx \in OneCells :
                <<csvFile[yx[1]].name, Sources[yx[2]]>>
                    \in ElementsOf(RealTiles(FirstFabric)[n].pips)

\* a Tile object without its identity
Content(t) == [t EXCEPT !.id = <<>>]

\* C14: every genFabricObject call of a run returns a Fabric whose tiles list
\* has len(fabric) rows of len(fabric[0]) tiles, equal in content to the
\* tiles the first call returned.
C14_CallsAgree ==
    (bs.status # "none" /\ FirstFabric.status = "ok") =>
        /\ Len(bs.calls) = bs.earlier + 1
        /\ \A k \in 1..Len(bs.calls) :
              /\ bs.calls[k].status = "ok"
              /\ Len(bs.calls[k].tiles) = Len(FabricFile.fabric)
              /\ \A r \in 1..Len(bs.calls[k].tiles) :
                    /\ Len(bs.calls[k].tiles[r]) = Len(FabricFile.fabric[1])
                    /\ \A c \in 1..Len(bs.calls[k].tiles[r]) :
                          Content(bs.calls[k].tiles[r][c])
                              = Content(FirstFabric.tiles[r][c])

\* the configBit of the bels before the i-th
BitsBefore(i) == SumSeq([n \in 1..(i - 1) |-> bels[n].configBit])

\* the logical bits of the i-th bel and those of the multiplexer of row y
BelBits(i) == tl.belOffsets[i]..(tl.belOffsets[i] + bels[i].configBit - 1)

MatrixBits(y) ==
    (tl.switchMatrixOffset + sm.muxes[y].oldConfigBitstreamPosition)
        ..(tl.switchMatrixOffset + sm.muxes[y].configBitstreamPosition - 1)

\* C21: generateTile hands the i-th bel the offset sum(configBit of bels
\* 0..i-1) and the switch matrix the offset sum(configBit of all bels); so the
\* bel ranges are disjoint, each starts where the one before it ends, and
\* every bel bit lies below every multiplexer bit.
C21_BelOffsets ==
    (tl.status = "ok" /\ sm.status = "ok") =>
        /\ Len(tl.belOffsets) = Len(bels)
        /\ \A i \in 1..Len(bels) : tl.belOffsets[i] = BitsBefore(i)
        /\ tl.switchMatrixOffset = BitsBefore(Len(bels) + 1)
        /\ \A i \in 1..Len(bels) :
              /\ i < Len(bels) => tl.belOffsets[i + 1] = tl.belOffsets[i] + bels[i].configBit
              /\ \A j \in 1..Len(bels) : i # j => BelBits(i) \cap BelBits(j) = {}
              /\ \A y \in 1..Len(csvFile) :
                    \A b \in BelBits(i) : \A m \in MatrixBits(y) : b < m

C21_Witness ==
    /\ tl.status = "ok"
    /\ sm.status = "ok"
    /\ bels = <<IOPAD, MUX8, CFG>>
    /\ tl.belOffsets = <<0, 0, 2>>
    /\ tl.switchMatrixOffset = 6
    /\ \E y \in 1..Len(csvFile) : MatrixBits(y) = {6, 7}

\* the tile of a fabric object at a location <<"X", x, "Y", y>>
TileAtLoc(fabricObject, loc) == getTileByCoords(fabricObject.tiles, loc[2], loc[4])

\* the atomic wires of a tile that leave the port, by kind
WiresFrom(t, port, jump) ==
    IF t = None THEN {}
    ELSE {n \in 1..Len(t.atomicWires) :
            /\ t.atomicWires[n].source = port
            /\ (t.atomicWires[n].direction = "JUMP") = jump}

\* a signal followed from a source port: one segment to the next tile, then
\* the JUMP wire that leaves the port it arrived at, if there is one
RECURSIVE Follow(_, _, _, _, _)
Follow(fabricObject, loc, port, segments, jumps) ==
    LET t == TileAtLoc(fabricObject, loc)
        out == WiresFrom(t, port, FALSE)
    IN IF out = {} \/ segments > MaxSpan + 1
       THEN [loc |-> loc, port |-> port, segments |-> segments, jumps |-> jumps,
             arrived |-> FALSE]
       ELSE LET a == t.atomicWires[MinOf(out)]
                d == TileAtLoc(fabricObject, a.destTile)
                through == WiresFrom(d, a.destination, TRUE)
            IN IF through = {}
               THEN [loc |-> a.destTile, port |-> a.destination,
                     segments |-> segments + 1, jumps |-> jumps, arrived |-> TRUE]
               ELSE Follow(fabricObject, a.destTile,
                           d.atomicWires[MinOf(through)].destination,
                           segments + 1, jumps + 1)

\* the wire every tile of type T of a chain declares, and its magnitude
ChainWire == FabricFile.tiles["T"][1]

ChainSpan == Abs(ChainWire.xoffset) + Abs(ChainWire.yoffset)

\* the tiles of type T whose wire ends inside the fabric
ChainStarts(fabricObject) ==
    {t \in ElementsOf(RealTiles(fabricObject)) :
        /\ t.tileType = "T"
        /\ getTileByCoords(fabricObject.tiles, t.x + ChainWire.xoffset,
                           t.y + ChainWire.yoffset) # None}

\* the destination indices of the segments that leave a tile, in list order
SegmentIndices(t) ==
    LET segments == SelectSeq(t.atomicWires, LAMBDA a : a.direction # "JUMP")
    IN [n \in 1..Len(segments) |-> segments[n].destination[2]]

ChainDone ==
    IF bs.status = "none" THEN FALSE ELSE FabricFile \in ChainFiles

\* C22: for a wire of width w and single-axis offset m > 1 that every tile on
\* its path declares, the atomic wires of genFabricObject take a signal from
\* source index i < w to destination index i in the tile m steps away over
\* exactly m unit segments and m-1 JUMP wires, and in every tile the w*m
\* segment destination indices are a permutation of 0..w*m-1.
C22_CascadeRoutes ==
    ChainDone =>
        /\ FirstFabric.status = "ok"
        /\ \A t \in ChainStarts(FirstFabric) :
              \A i \in 0..(ChainWire.wire_count - 1) :
                 Follow(FirstFabric, genTileLoc(t.x, t.y), <<ChainWire.source, i>>, 0, 0)
                    = [loc |-> genTileLoc(t.x + ChainWire.xoffset, t.y + ChainWire.yoffset),
                       port |-> <<ChainWire.destination, i>>,
                       segments |-> ChainSpan, jumps |-> ChainSpan - 1,
                       arrived |-> TRUE]
        /\ \A t \in ElementsOf(RealTiles(FirstFabric)) :
              t.tileType = "T" =>
                 /\ Len(SegmentIndices(t)) = ChainWire.wire_count * ChainSpan
                 /\ ElementsOf(SegmentIndices(t))
                        = 0..(ChainWire.wire_count * ChainSpan - 1)

C22_Witness ==
    /\ ChainDone
    /\ ChainWire = East(2, 0, 2)
    /\ FabricFile.fabric = ChainRow(3)
    /\ FirstFabric.status = "ok"
    /\ Cardinality(ChainStarts(FirstFabric)) = 2
    /\ Follow(FirstFabric, genTileLoc(0, 0), <<"E1BEG", 1>>, 0, 0).jumps = 1
    /\ Follow(FirstFabric, genTileLoc(0, 0), <<"E1BEG", 1>>, 0, 0).loc = genTileLoc(2, 0)

\* the position a pass over the fan-in map ends at
EndOf(ranges) == IF ranges = <<>> THEN 0 ELSE ranges[Len(ranges)].configBitstreamPosition

\* the multiplexers of the emission pass that take configuration bits
Muxes == SelectSeq(sm.muxes, LAMBDA m : m.muxSize >= 2)

\* C28: with SwitchMatrixDebugSignals, DEBUG_select of every multiplexer with
\* N >= 2 is assigned the ConfigBits range [old, new) the multiplexer got in
\* the emission pass, and the counting, emission and debug passes end at the
\* same number of bits.
C28_DebugRanges ==
    (sm.status = "ok" /\ SwitchMatrixDebugSignals) =>
        /\ Len(sm.debug) = Len(Muxes)
        /\ \A n \in 1..Len(Muxes) :
              /\ sm.debug[n].portName = Muxes[n].portName
              /\ sm.debug[n].oldConfigBitstreamPosition
                    = Muxes[n].oldConfigBitstreamPosition
              /\ sm.debug[n].configBitstreamPosition = Muxes[n].configBitstreamPosition
        /\ EndOf(sm.muxes) = sm.NumberOfConfigBits
        /\ EndOf(sm.debug) = sm.NumberOfConfigBits

C28_Witness ==
    /\ sm.status = "ok"
    /\ Len(csvFile) = 3
    /\ Len(sm.debug) = 2
    /\ sm.muxes[2].muxSize = 1
    /\ sm.debug[2].oldConfigBitstreamPosition = 2
    /\ sm.debug[2].configBitstreamPosition = 3
    /\ sm.NumberOfConfigBits = 3

\* C30: genTileSwitchMatrix raises ValueError exactly when ConfigBitMode is
\* none of ff_chain, FlipFlopChain, frame_based and the switch matrix has a
\* multiplexer with N >= 2 (globalConfigBits > 0); with zero bits the mode is
\* not looked at and the generation completes.
C30_ModeChecked ==
    sm.status # "none" =>
        /\ sm.status \in {"ok", "ValueError"}
        /\ sm.status = "ValueError"
              <=> /\ ConfigBitMode \notin {"ff_chain", "FlipFlopChain", "frame_based"}
                  /\ \E y \in 1..Len(csvFile) : Len(FanIn(y)) >= 2
        /\ sm.status = "ValueError" => sm.globalConfigBits > 0
        /\ sm.globalConfigBits = 0 => sm.status = "ok" /\ matrixFile = 0

C30_Witness ==
    /\ ConfigBitMode = "frame"
    /\ sm.status = "ValueError"
    /\ sm.globalConfigBits = 2
    /\ matrixFile = NoFile

\* an invalid mode that is not noticed
C30_ZeroBits ==
    /\ ConfigBitMode = "frame"
    /\ sm.status = "ok"
    /\ sm.globalConfigBits = 0
    /\ Len(csvFile) = 2
    /\ Len(FanIn(1)) = 1

\* tile.belPorts as the program reads it after the call: the set of the class
BelPortsOf(fabricObject, t) == fabricObject.belPorts

\* the prefixed port names of the bels declared for the type of a tile
DeclaredBelPorts(t) == BelPortsUpdate({}, GetTileFromFile(FabricFile, t.tileType))

\* the bel ports of all tile types of the fabric file
AllBelPorts == UNION {DeclaredBelPorts(t) : t \in ElementsOf(RealTiles(FirstFabric))}

\* C29: after genFabricObject the belPorts of each tile holds exactly the
\* prefixed port names of the bels declared for that tile, none that belongs
\* only to a bel of another tile, so that addBrackets(port, tile) decides from
\* the ports of that tile alone.
C29_BelPortsPerTile ==
    (IF bs.status = "none" THEN FALSE ELSE FirstFabric.status = "ok") =>
        \A t \in ElementsOf(RealTiles(FirstFabric)) :
            /\ BelPortsOf(FirstFabric, t) = DeclaredBelPorts(t)
            /\ \A port \in AllBelPorts :
                  addBrackets(port, BelPortsOf(FirstFabric, t))
                      = addBrackets(port, DeclaredBelPorts(t))

\* the columns of row y of the table that hold "1"
OneColumns(y) == {x \in 1..Len(csvFile[y].cells) : csvFile[y].cells[x] = "1"}

\* the column of the header that names a source
ColumnOf(source) == CHOOSE x \in 1..Len(Sources) : Sources[x] = source

ConfigMemRan == IF cm.status = "none" THEN FALSE ELSE cm.csvFileName # "none"

\* C25: generateConfigMem uses the explicit mapping file whenever the file
\* passed as configMemCsv (<src_dir>/<tile>_ConfigMem.csv) exists and the
\* generated default mapping only when it does not; the file tested is the
\* file read, also when src_dir is not the current directory.
C25_TestedFileIsRead ==
    ConfigMemRan =>
        IF mappingFile # NoMapping
        THEN cm.csvFileName = "ConfigMem.csv" /\ cm.mappingFile = mappingFile
        ELSE cm.csvFileName = "ConfigMem.init.csv" /\ cm.mappingFile = initFile

\* the (side, x, y) entries of a list, and those the claim puts in each list
Entries(list) == {list[n] : n \in 1..Len(list)}

MemberSides ==
    {<<Sides(c[1], c[2])[n].side, c[1], c[2]>> :
        c \in {m \in Entries(MapCells(tileMap)) : MapCell(tileMap, m[1], m[2]) # "None"},
        n \in 1..4}

AdjacentIsMember(e) ==
    LET s == CHOOSE s \in Entries(Sides(e[2], e[3])) : s.side = e[1]
    IN /\ 0 <= s.x /\ s.x < Len(tileMap[1])
       /\ 0 <= s.y /\ s.y < Len(tileMap)
       /\ MapCell(tileMap, s.x, s.y) # "None"

\* C23: in generateSuperTile every side of every member tile is emitted as
\* external exactly when the adjacent cell is outside the map or empty and
\* declared as internal exactly when the adjacent cell is a member, no
\* (tile, side) in both lists or in neither, and the generation completes
\* for tile maps with empty cells.
C23_PerimeterAndInternal ==
    superTileHDL.status # "none" =>
        /\ superTileHDL.status = "ok"
        /\ Entries(superTileHDL.portsAround) = {e \in MemberSides : ~AdjacentIsMember(e)}
        /\ Entries(superTileHDL.internalConnections)
              = {e \in MemberSides : AdjacentIsMember(e)}
        /\ Len(superTileHDL.portsAround) + Len(superTileHDL.internalConnections)
              = Cardinality(MemberSides)

\* the steps of a -run_all run that have returned
StepsDone == IF pc > 0 THEN pc - 1 ELSE (0 - pc) - 1

\* C26: -run_all runs the switch-matrix csv bootstrap, genTileSwitchMatrix,
\* generateConfigMem, generateTile and generateFabric in this order, so the
\* switch-matrix file with NumberOfConfigBits is written before
\* generateConfigMem and generateTile read it, and every step starts from a
\* freshly parsed fabric object (no count is carried from step to step).
C26_RunAllOrder ==
    pc # 0 =>
        /\ sm.status # "none" =>
              /\ StepsDone >= 1
              /\ sm.status = "ok" => sm.globalConfigBits = sm.NumberOfConfigBits
        /\ cm.status # "none" =>
              /\ StepsDone >= 3
              /\ sm.status = "ok"
              /\ matrixFile = sm.NumberOfConfigBits
              /\ cm.status \notin {"FileNotFoundError"}
              /\ cm.globalConfigBits = FreshTile(bels).globalConfigBits + matrixFile
        /\ tl.status # "none" =>
              /\ StepsDone >= 5
              /\ cm.status # "none"
              /\ tl.status = "ok"
              /\ tl.globalConfigBits = FreshTile(bels).globalConfigBits + matrixFile
        /\ StepsDone >= 8 => tl.status = "ok"
        /\ pc > 0

C26_Witness ==
    /\ pc = LastStep + 1
    /\ bels = <<IOPAD, MUX8, CFG>>
    /\ sm.status = "ok"
    /\ cm.status = "ok"
    /\ cm.globalConfigBits = 6
    /\ tl.status = "ok"
    /\ tl.globalConfigBits = 6

\* C27: a generation run only reads the switch-matrix adjacency tables: in a
\* -run_all run whose source directory is the current directory no step
\* changes <tile>_switch_matrix.csv, so genTileSwitchMatrix reads the content
\* the file had before the run.
C27_TablesOnlyRead ==
    [][(pc # 0 /\ src_dir = ".") => csvFile' = csvFile]_vars

====
